---- MODULE Spec2Model ----
(***************************************************************************)
(* Model of the market-data pipeline of AlgoForge (src/data_pipeline):     *)
(* NQDataDownloader (chunked fetch, validation, cleaning, LEAN encoding,   *)
(* file writing) and the option-contract writer of                         *)
(* YFinanceOptionsDownloader.                                              *)
(*                                                                         *)
(* Representation.                                                         *)
(*  - A datetime is a record [date, hour, minute, second, microsecond]     *)
(*    where date is the number of days since 1970-01-01 (naive datetimes,  *)
(*    as the NQ downloader uses them).                                     *)
(*  - A price is an integer number of price units; one unit is             *)
(*    1 / (LEAN_PRICE_MULTIPLIER * SubTicks) of a currency unit, so that   *)
(*    prices finer than the 1e-4 grid of the archive exist in the model.   *)
(*  - A bar is a function from the keys it has to their values (a Python   *)
(*    dict); a missing key is a key outside its DOMAIN.                    *)
(*  - A string built by strftime is a sequence of one-character strings.   *)
(***************************************************************************)
EXTENDS Integers, Sequences, FiniteSets, TLC

\* ------------------------------------------------------------------------
\* Bounds of the model (not program constants)
\* ------------------------------------------------------------------------
\* price units per 1e-4 currency unit
SubTicks == 2
\* largest price, in price units, of the exhaustively enumerated bars
MaxPrice == 3
\* longest list of bars handed to clean / create_lean_csv_simple
MaxLen == 3
\* longest whole-day request span enumerated (besides the 400-day example)
MaxDays == 17
\* longest list of symbols handed to download_multiple_symbols
MaxSymbols == 2
\* most provider or disk failures in one run
MaxFaults == 1
\* largest volume and largest moving-average value enumerated
MaxVolume == 10
\* number of distinct prices a crypto symbol may trade at
MaxQuote == 13

\* how many times a run is killed from outside
MaxKills == 1

\* ------------------------------------------------------------------------
\* Program constants
\* ------------------------------------------------------------------------
chunk_days == 7
LEAN_PRICE_MULTIPLIER == 10000
LEAN_CRYPTO_PRICE_MULTIPLIER == 1
NQ_RATE_LIMIT == 5
NQ_SYMBOLS == <<"QQQ", "TQQQ", "SQQQ", "QQQS", "QQQM">>

\* ------------------------------------------------------------------------
\* datetime / timedelta
\* ------------------------------------------------------------------------
DateTime(d, h, mi, s, us) ==
    [date |-> d, hour |-> h, minute |-> mi, second |-> s, microsecond |-> us]

SecondOfDay(t) == (t.hour * 60 + t.minute) * 60 + t.second

\* a <= b on datetimes
DtLE(a, b) ==
    \/ a.date < b.date
    \/ /\ a.date = b.date
       /\ \/ SecondOfDay(a) < SecondOfDay(b)
          \/ /\ SecondOfDay(a) = SecondOfDay(b)
             /\ a.microsecond <= b.microsecond

DtLT(a, b) == DtLE(a, b) /\ a # b

\* min(a, b): Python returns the first argument when neither is smaller
DtMin(a, b) == IF DtLT(b, a) THEN b ELSE a

\* t + timedelta(days=k)
AddDays(t, k) == [t EXCEPT !.date = @ + k]

\* t.replace(hour=0, minute=0, second=0, microsecond=0)
Midnight(t) == [t EXCEPT !.hour = 0, !.minute = 0, !.second = 0, !.microsecond = 0]

\* (a - b).total_seconds() * 1000, truncated by int(): whole milliseconds
\* between two datetimes, a >= b.  The product is computed in binary floating
\* point; it is exact for whole-second datetimes and for the sub-second value
\* used below (23:59:59.999999), the only ones this model draws.
DeltaMillis(a, b) ==
    (a.date - b.date) * 86400000
      + (SecondOfDay(a) - SecondOfDay(b)) * 1000
      + (a.microsecond \div 1000) - (b.microsecond \div 1000)

\* proleptic Gregorian calendar date of a day number (days since 1970-01-01)
CivilFromDays(days) ==
    LET z   == days + 719468
        era == z \div 146097
        doe == z - era * 146097
        yoe == (doe - doe \div 1460 + doe \div 36524 - doe \div 146096) \div 365
        doy == doe - (365 * yoe + yoe \div 4 - yoe \div 100)
        mp  == (5 * doy + 2) \div 153
        d   == doy - (153 * mp + 2) \div 5 + 1
        m   == IF mp < 10 THEN mp + 3 ELSE mp - 9
        y   == yoe + era * 400 + (IF m <= 2 THEN 1 ELSE 0)
    IN  [year |-> y, month |-> m, day |-> d]

DigitChar(n) == <<"0", "1", "2", "3", "4", "5", "6", "7", "8", "9">>[n + 1]

\* zero-padded decimal rendering of n on exactly w characters (%Y, %m, %d, %H, %M)
RECURSIVE ZeroPad(_, _)
ZeroPad(n, w) ==
    IF w = 0 THEN <<>> ELSE Append(ZeroPad(n \div 10, w - 1), DigitChar(n % 10))

\* t.strftime("%Y%m%d")
StrfDate(t) ==
    LET c == CivilFromDays(t.date)
    IN  ZeroPad(c.year, 4) \o ZeroPad(c.month, 2) \o ZeroPad(c.day, 2)

\* t.strftime("%Y%m%d %H:%M")
StrfDateTime(t) ==
    StrfDate(t) \o <<" ">> \o ZeroPad(t.hour, 2) \o <<":">> \o ZeroPad(t.minute, 2)

\* t.strftime('%Y-%m-%d')
StrfIsoDate(t) ==
    LET c == CivilFromDays(t.date)
    IN  ZeroPad(c.year, 4) \o <<"-">> \o ZeroPad(c.month, 2) \o <<"-">> \o ZeroPad(c.day, 2)

\* ------------------------------------------------------------------------
\* Integer conversions
\* ------------------------------------------------------------------------
\* int(n / d) for d > 0: truncation toward zero
Trunc(n, d) == IF n >= 0 THEN n \div d ELSE -((-n) \div d)

\* round(n / d) for d > 0: nearest integer, ties to even
RoundHalfEven(n, d) ==
    LET q == n \div d
        r == n % d
    IN  IF 2 * r < d THEN q
        ELSE IF 2 * r > d THEN q + 1
        ELSE IF q % 2 = 0 THEN q ELSE q + 1

\* price units in one archive unit when the multiplier is m (m divides 10000)
UnitsPerScaled(m) == (LEAN_PRICE_MULTIPLIER \div m) * SubTicks

\* a whole currency amount n / 100 (n in cents), in price units
Cents(n) == n * (LEAN_PRICE_MULTIPLIER \div 100) * SubTicks

\* ------------------------------------------------------------------------
\* Text
\* ------------------------------------------------------------------------
\* str(n) of a non-negative integer
RECURSIVE NatStr(_)
NatStr(n) == IF n < 10 THEN <<DigitChar(n)>> ELSE Append(NatStr(n \div 10), DigitChar(n % 10))

\* str(n) of an integer, as an f-string renders it
IntStr(n) == IF n < 0 THEN <<"-">> \o NatStr(-n) ELSE NatStr(n)

\* ",".join(fields)
RECURSIVE JoinCommas(_)
JoinCommas(fields) ==
    IF Len(fields) = 0 THEN <<>>
    ELSE IF Len(fields) = 1 THEN fields[1]
    ELSE fields[1] \o <<",">> \o JoinCommas(Tail(fields))

\* ------------------------------------------------------------------------
\* Bars
\* ------------------------------------------------------------------------
required_fields == {"open", "high", "low", "close", "volume", "timestamp"}

Bar(ts, o, h, l, c, v) ==
    [timestamp |-> ts, open |-> o, high |-> h, low |-> l, close |-> c, volume |-> v]

\* the dict b without the keys outside keep
Restrict(b, keep) == [k \in keep |-> b[k]]

\* the validator without its volume check
validate_without_volume_check(data) ==
    IF \E field \in required_fields : field \notin DOMAIN data THEN FALSE
    ELSE IF ~ ( /\ data["low"] <= data["open"] /\ data["open"] <= data["high"]
                /\ data["low"] <= data["close"] /\ data["close"] <= data["high"] )
         THEN FALSE
    ELSE TRUE

\* NQDataDownloader.validate_ohlcv_data_simple
validate_ohlcv_data_simple(data) ==
    IF \E field \in required_fields : field \notin DOMAIN data THEN FALSE
    ELSE IF ~ ( /\ data["low"] <= data["open"] /\ data["open"] <= data["high"]
                /\ data["low"] <= data["close"] /\ data["close"] <= data["high"] )
         THEN FALSE
    ELSE IF data["volume"] < 0 THEN FALSE
    ELSE TRUE

\* the cleaning loop inserting at the front instead of appending
RECURSIVE CleanLoopPrepending(_, _)
CleanLoopPrepending(data, cleaned_data) ==
    IF Len(data) = 0 THEN cleaned_data
    ELSE CleanLoopPrepending(Tail(data),
                   IF validate_ohlcv_data_simple(Head(data))
                   THEN <<Head(data)>> \o cleaned_data
                   ELSE cleaned_data)

\* NQDataDownloader.clean_ohlcv_data_simple: the loop over data, appending
\* the bars that validate
RECURSIVE CleanLoop(_, _)
CleanLoop(data, cleaned_data) ==
    IF Len(data) = 0 THEN cleaned_data
    ELSE CleanLoop(Tail(data),
                   IF validate_ohlcv_data_simple(Head(data))
                   THEN Append(cleaned_data, Head(data))
                   ELSE cleaned_data)

clean_ohlcv_data_simple(data) == CleanLoop(data, <<>>)

\* scaling by a tenth of the multiplier
ScalePriceTenth(p, m) == Trunc(p, UnitsPerScaled(m) * 10)

\* int(price * m) for a price of p price units
ScalePrice(p, m) == Trunc(p, UnitsPerScaled(m))

\* the time column counting seconds instead of milliseconds
TimeFieldSeconds(ts, resolution) ==
    IF resolution = "daily"
    THEN StrfDateTime(ts)
    ELSE IntStr(DeltaMillis(ts, Midnight(ts)) \div 1000)

\* the time column of a row: strftime text for daily bars, otherwise
\* int(delta.total_seconds() * 1000) since the bar's own midnight
TimeField(ts, resolution) ==
    IF resolution = "daily"
    THEN StrfDateTime(ts)
    ELSE IntStr(DeltaMillis(ts, Midnight(ts)))

\* the line with low written before high
CsvLineLowBeforeHigh(bar, resolution) ==
    JoinCommas(<< TimeField(bar["timestamp"], resolution),
                  IntStr(ScalePrice(bar["open"], LEAN_PRICE_MULTIPLIER)),
                  IntStr(ScalePrice(bar["low"], LEAN_PRICE_MULTIPLIER)),
                  IntStr(ScalePrice(bar["high"], LEAN_PRICE_MULTIPLIER)),
                  IntStr(ScalePrice(bar["close"], LEAN_PRICE_MULTIPLIER)),
                  IntStr(bar["volume"]) >>)

\* one f-string line of create_lean_csv_simple
CsvLine(bar, resolution) ==
    JoinCommas(<< TimeField(bar["timestamp"], resolution),
                  IntStr(ScalePrice(bar["open"], LEAN_PRICE_MULTIPLIER)),
                  IntStr(ScalePrice(bar["high"], LEAN_PRICE_MULTIPLIER)),
                  IntStr(ScalePrice(bar["low"], LEAN_PRICE_MULTIPLIER)),
                  IntStr(ScalePrice(bar["close"], LEAN_PRICE_MULTIPLIER)),
                  IntStr(bar["volume"]) >>)

\* NQDataDownloader.create_lean_csv_simple: the loop over data
RECURSIVE CsvLoop(_, _, _)
CsvLoop(data, resolution, csv_lines) ==
    IF Len(data) = 0 THEN csv_lines
    ELSE CsvLoop(Tail(data), resolution, Append(csv_lines, CsvLine(Head(data), resolution)))

create_lean_csv_simple(data, symbol, resolution) == CsvLoop(data, resolution, <<>>)

\* the keys create_lean_csv_simple reads; a bar without one raises KeyError
EncodableBars(data) == \A i \in 1..Len(data) : required_fields \subseteq DOMAIN data[i]

\* price encoding of the crypto asset class: round(price * multiplier)
EncodeCryptoPrice(p) == RoundHalfEven(p, UnitsPerScaled(LEAN_CRYPTO_PRICE_MULTIPLIER))

\* ------------------------------------------------------------------------
\* Files
\* ------------------------------------------------------------------------
\* what the loop "for line in csv_lines: f.write(line + '\n')" writes
RECURSIVE WriteLines(_)
WriteLines(csv_lines) ==
    IF Len(csv_lines) = 0 THEN <<>>
    ELSE Head(csv_lines) \o <<"\n">> \o WriteLines(Tail(csv_lines))

\* the file system: a function from the paths that exist to their content
FileContent(fs, path) == IF path \in DOMAIN fs THEN fs[path] ELSE <<>>

\* open(path, 'a'): appending to what the file holds
OpenAppend(fs, path, content) ==
    [p \in DOMAIN fs \cup {path} |-> IF p = path THEN FileContent(fs, path) \o content ELSE fs[p]]

\* open(path, 'w') followed by writes of content: the file holds content
OpenWrite(fs, path, content) ==
    [p \in DOMAIN fs \cup {path} |-> IF p = path THEN content ELSE fs[p]]

\* NQDataDownloader.save_data_simple
save_data_simple(fs, csv_lines, output_path) == OpenWrite(fs, output_path, WriteLines(csv_lines))

\* the characters of the string literals that occur in paths
Chars(s) ==
    CASE s = "minute" -> <<"m", "i", "n", "u", "t", "e">>
      [] s = "hour"   -> <<"h", "o", "u", "r">>
      [] s = "daily"  -> <<"d", "a", "i", "l", "y">>
      [] s = "nq"     -> <<"n", "q">>
      [] s = "call"   -> <<"c", "a", "l", "l">>
      [] s = "put"    -> <<"p", "u", "t">>
      [] s = ".csv"   -> <<".", "c", "s", "v">>
      [] s = ".zip"   -> <<".", "z", "i", "p">>
      [] s = "_trade.csv" -> <<"_", "t", "r", "a", "d", "e", ".", "c", "s", "v">>
      [] s = "_trade.zip" -> <<"_", "t", "r", "a", "d", "e", ".", "z", "i", "p">>
      [] s = "futures/usa" -> <<"f", "u", "t", "u", "r", "e", "s", "/", "u", "s", "a">>
      [] s = "equity/usa" -> <<"e", "q", "u", "i", "t", "y", "/", "u", "s", "a">>
      [] s = "option/usa" -> <<"o", "p", "t", "i", "o", "n", "/", "u", "s", "a">>

\* symbol.lower()
LowerChars(symbol) ==
    CASE symbol = "QQQ"  -> <<"q", "q", "q">>
      [] symbol = "TQQQ" -> <<"t", "q", "q", "q">>
      [] symbol = "SQQQ" -> <<"s", "q", "q", "q">>
      [] symbol = "QQQS" -> <<"q", "q", "q", "s">>
      [] symbol = "QQQM" -> <<"q", "q", "q", "m">>
      [] symbol = "SPY"  -> <<"s", "p", "y">>
      [] symbol = "ES=F" -> <<"e", "s", "=", "f">>
      [] symbol = "NQ=F" -> <<"n", "q", "=", "f">>
      [] symbol = "CL=F" -> <<"c", "l", "=", "f">>

\* os.path.join(a, b)
PathJoin(a, b) == a \o <<"/">> \o b

\* output path of one minute chunk: {symbol}_{YYYYMMDD of current_start}_{resolution}.csv
ChunkPath(symbol, resolution, current_start) ==
    PathJoin(PathJoin(PathJoin(Chars("equity/usa"), Chars(resolution)), Chars("nq")),
             LowerChars(symbol) \o <<"_">> \o StrfDate(current_start) \o <<"_">>
               \o Chars(resolution) \o Chars(".csv"))

\* output path of the daily / hourly branch: {symbol}_{resolution}.csv
RangePath(symbol, resolution) ==
    PathJoin(PathJoin(PathJoin(Chars("equity/usa"), Chars(resolution)), Chars("nq")),
             LowerChars(symbol) \o <<"_">> \o Chars(resolution) \o Chars(".csv"))

\* YFinanceOptionsDownloader.format_options_data_for_lean, one row whose
\* lastPrice is last_price price units (> 0): OHLC estimated around it
FormatContract(symbol, expiration, option_type, strike_milli, last_price, volume, open_interest) ==
    [ symbol |-> symbol, expiration |-> expiration, option_type |-> option_type,
      strike_milli |-> strike_milli,
      open  |-> Trunc(last_price * 98, 100 * UnitsPerScaled(LEAN_PRICE_MULTIPLIER)),
      high  |-> Trunc(last_price * 102, 100 * UnitsPerScaled(LEAN_PRICE_MULTIPLIER)),
      low   |-> Trunc(last_price * 96, 100 * UnitsPerScaled(LEAN_PRICE_MULTIPLIER)),
      close |-> ScalePrice(last_price, LEAN_PRICE_MULTIPLIER),
      volume |-> volume, openinterest |-> open_interest ]

\* YFinanceOptionsDownloader.get_lean_filepath
get_lean_filepath(symbol, expiration, option_type, strike_milli) ==
    PathJoin(PathJoin(PathJoin(Chars("option/usa"), Chars("daily")), LowerChars(symbol)),
             LowerChars(symbol) \o <<"_">> \o StrfDate(expiration) \o <<"_">>
               \o Chars(option_type) \o <<"_">> \o ZeroPad(strike_milli, 8) \o Chars(".csv"))

\* YFinanceOptionsDownloader.save_contract_data
save_contract_data(fs, contract_data) ==
    LET filepath == get_lean_filepath(contract_data.symbol, contract_data.expiration,
                                      contract_data.option_type, contract_data.strike_milli)
        csv_row  == << contract_data.open, contract_data.high, contract_data.low,
                       contract_data.close, contract_data.volume, contract_data.openinterest >>
        text     == JoinCommas([k \in 1..6 |-> IntStr(csv_row[k])])
    IN  OpenWrite(fs, filepath, text \o <<"\n">>)

\* ------------------------------------------------------------------------
\* Inputs
\* ------------------------------------------------------------------------
Resolutions == {"minute", "hour", "daily"}

\* 2024-01-15 09:31, the sample bar time of demo_nq.py, and a time late on
\* 2024-03-05 with seconds and microseconds
DemoTime == DateTime(19737, 9, 31, 0, 0)
LateTime == DateTime(19787, 23, 59, 59, 999999)

PriceVals == (0 - 1)..MaxPrice
VolumeVals == {0 - 1, 0, 7}

FullBars ==
    { Bar(ts, o, h, l, c, v) :
        ts \in {DemoTime, LateTime}, o \in PriceVals, h \in PriceVals,
        l \in PriceVals, c \in PriceVals, v \in VolumeVals }

\* every dict with a subset of the six keys and small values
AllBars == { Restrict(b, keep) : b \in FullBars, keep \in SUBSET required_fields }

\* o=382.50 h=382.65 l=382.40 c=382.55 v=1050000 at 2024-01-15 09:31
ExampleBar == Bar(DemoTime, Cents(38250), Cents(38265), Cents(38240), Cents(38255), 1050000)
\* open=10 high=9 low=8 close=9.5 volume=100: high < open
RejectBar == Bar(DemoTime, Cents(1000), Cents(900), Cents(800), Cents(950), 100)
\* a valid bar whose prices lie off the 1e-4 grid
FineBar == Bar(LateTime, Cents(100) + 3, Cents(101) + 1, Cents(99) + 1, Cents(100), 0)
NegVolumeBar == Bar(DemoTime, 2, 3, 1, 2, 0 - 1)
NoVolumeBar == Restrict(ExampleBar, required_fields \ {"volume"})

SampleBars == {ExampleBar, RejectBar, FineBar, NegVolumeBar, NoVolumeBar}

SeqsUpTo(S, n) == UNION { [1..k -> S] : k \in 0..n }

DataInputs == { <<b>> : b \in AllBars } \cup SeqsUpTo(SampleBars, MaxLen)

\* ------------------------------------------------------------------------
\* State
\* ------------------------------------------------------------------------
VARIABLES
    resolution,     \* the resolution argument
    data,           \* list of bars handed to the validator / encoder
    phase,          \* which operation was applied last to data
    verdicts,       \* verdicts[i]: result of validate_ohlcv_data_simple(data[i])
    cleaned_data,   \* result of clean_ohlcv_data_simple(data)
    csv_input,      \* the list create_lean_csv_simple was called with
    csv_lines,      \* its result
    crypto_scaled,  \* prices of cleaned_data encoded for the crypto asset class
    files,          \* the file system: path -> content
    last_save,      \* the last completed write: its path, its lines, the file system before it
    start_date,     \* arguments of download_symbol_data
    end_date,
    api_key,        \* whether NQ_API_KEY is set
    market,         \* the bars the providers hold for the symbol, oldest first
    pc,             \* position inside download_symbol_data
    current_start,  \* loop variable of the minute branch
    fetched,        \* the windows passed to get_bars so far, in call order
    provenance,     \* path -> the bars whose rows this call wrote to it
    symbols,        \* the symbols argument of download_multiple_symbols
    sym_i,          \* how many symbols the for loop has taken from the list
    attempted,      \* the symbols download_symbol_data was called with, in call order
    requests,       \* the requests sent to the providers, in order, each with its time
    slept,          \* total time spent in time.sleep so far
    raised,         \* the exception in flight, "none" when there is none
    errors,         \* the logger.error lines of download_multiple_symbols
    return_value,   \* what download_multiple_symbols returned
    last_chunk,     \* the last get_bars result processed, with the file system before it
    faults,         \* how many provider or disk failures have happened so far
    intended,       \* path -> the content save_data_simple set out to write to it
    pending,        \* the lines save_data_simple has still to write to the open file
    kills,          \* per kill of the process: the file it was writing and what it left of it
    adapter,        \* the provider adapter that is called
    payload,        \* the decoded JSON document the provider answered with
    result,         \* what the adapter call did: exception, bars returned, time slept
    source,         \* args.source of main()
    available,      \* ALPACA_AVAILABLE, BINANCE_AVAILABLE, NQ_AVAILABLE
    invoked,        \* the downloaders main() has called, in call order, with their outcome
    exit_code,      \* the process exit status, "running" until main() ends
    block,          \* the source block of main() that is reached next
    volume_sma,     \* SymbolData.volume_sma: IsReady and Current.Value
    bar_volume,     \* the volume of the current bar
    volume_confirmed, \* what IsVolumeConfirmed returned
    price,          \* Securities[symbol].Price
    quantity,       \* Portfolio[symbol].Quantity
    trailing_stops, \* trailing_stops[symbol]: <<>> for None, <<stop>> otherwise
    scheduled       \* the scheduled event of CryptoMomentum that fires next

dataVars == <<data, phase, verdicts, cleaned_data, csv_input, csv_lines, crypto_scaled>>
pipeVars == <<start_date, end_date, api_key, market, pc, current_start, fetched, provenance>>

runVars == <<symbols, sym_i, attempted, requests, slept, raised, errors, return_value,
             last_chunk, faults>>

killVars == <<intended, pending, kills>>
adapterVars == <<adapter, payload, result>>
mainVars == <<source, available, invoked, exit_code, block>>
strategyVars == <<volume_sma, bar_volume, volume_confirmed, price, quantity, trailing_stops,
                  scheduled>>

extVars == <<killVars, adapterVars, mainVars, strategyVars>>

vars == <<resolution, data, phase, verdicts, cleaned_data, csv_input, csv_lines,
          crypto_scaled, files, last_save, start_date, end_date, api_key, market,
          pc, current_start, fetched, provenance, symbols, sym_i, attempted, requests,
          slept, raised, errors, return_value, last_chunk, faults, intended, pending,
          kills, adapter, payload, result, source, available, invoked, exit_code, block,
          volume_sma, bar_volume, volume_confirmed, price, quantity, trailing_stops,
          scheduled>>

NoSave == [done |-> FALSE, path |-> <<>>, lines |-> <<>>, before |-> <<>>]

\* the values of the variables an operation group does not use
DataIdle ==
    /\ data = <<>>
    /\ phase = "idle"
    /\ verdicts = <<>>
    /\ cleaned_data = <<>>
    /\ csv_input = <<>>
    /\ csv_lines = <<>>
    /\ crypto_scaled = <<>>

PipeIdle ==
    /\ start_date = DateTime(0, 0, 0, 0, 0)
    /\ end_date = DateTime(0, 0, 0, 0, 0)
    /\ api_key = FALSE
    /\ market = <<>>
    /\ pc = "idle"
    /\ current_start = DateTime(0, 0, 0, 0, 0)
    /\ fetched = <<>>
    /\ provenance = <<>>

NoChunk == [done |-> FALSE, path |-> <<>>, data |-> <<>>, cleaned |-> <<>>, before |-> <<>>]

RunIdle ==
    /\ symbols = <<>>
    /\ sym_i = 0
    /\ attempted = <<>>
    /\ requests = <<>>
    /\ slept = 0
    /\ raised = "none"
    /\ errors = <<>>
    /\ return_value = "not returned"
    /\ last_chunk = NoChunk
    /\ faults = 0

NoResult == [done |-> FALSE, raised |-> "none", bars |-> <<>>, slept |-> 0]

NotCalled == [called |-> FALSE, value |-> FALSE]

KillIdle ==
    /\ intended = <<>>
    /\ pending = <<>>
    /\ kills = <<>>

AdapterIdle ==
    /\ adapter = "none"
    /\ payload = <<>>
    /\ result = NoResult

MainIdle ==
    /\ source = "none"
    /\ available = <<>>
    /\ invoked = <<>>
    /\ exit_code = "running"
    /\ block = "none"

StrategyIdle ==
    /\ volume_sma = [IsReady |-> FALSE, Value |-> 0]
    /\ bar_volume = 0
    /\ volume_confirmed = NotCalled
    /\ price = 0
    /\ quantity = 0
    /\ trailing_stops = <<>>
    /\ scheduled = "none"

ExtIdle == KillIdle /\ AdapterIdle /\ MainIdle /\ StrategyIdle

\* ------------------------------------------------------------------------
\* Validator and encoder applied to a list of bars
\* ------------------------------------------------------------------------
InitData ==
    /\ resolution \in Resolutions
    /\ data \in DataInputs
    /\ phase = "input"
    /\ verdicts = <<>>
    /\ cleaned_data = <<>>
    /\ csv_input = <<>>
    /\ csv_lines = <<>>
    /\ crypto_scaled = <<>>
    /\ files = <<>>
    /\ last_save = NoSave
    /\ PipeIdle
    /\ RunIdle
    /\ ExtIdle

Validate ==
    /\ phase = "input"
    /\ verdicts' = [i \in 1..Len(data) |-> validate_ohlcv_data_simple(data[i])]
    /\ phase' = "validated"
    /\ UNCHANGED <<resolution, extVars, data, cleaned_data, csv_input, csv_lines, crypto_scaled>>
    /\ UNCHANGED <<files, last_save, pipeVars, runVars>>

Clean ==
    /\ phase \in {"input", "validated"}
    /\ cleaned_data' = clean_ohlcv_data_simple(data)
    /\ phase' = "cleaned"
    /\ UNCHANGED <<resolution, extVars, data, verdicts, csv_input, csv_lines, crypto_scaled>>
    /\ UNCHANGED <<files, last_save, pipeVars, runVars>>

\* create_lean_csv_simple on the raw list (phase "input") or on the cleaned one
Encode ==
    /\ phase \in {"input", "cleaned"}
    /\ LET src == IF phase = "input" THEN data ELSE cleaned_data
       IN  /\ EncodableBars(src)
           /\ csv_input' = src
           /\ csv_lines' = create_lean_csv_simple(src, "QQQ", resolution)
    /\ phase' = "encoded"
    /\ UNCHANGED <<resolution, extVars, data, verdicts, cleaned_data, crypto_scaled>>
    /\ UNCHANGED <<files, last_save, pipeVars, runVars>>

\* create_lean_csv_simple on a list with a bar that lacks a key: KeyError
EncodeRaises ==
    /\ phase = "input"
    /\ ~EncodableBars(data)
    /\ phase' = "raised"
    /\ UNCHANGED <<resolution, extVars, data, verdicts, cleaned_data, csv_input, csv_lines, crypto_scaled>>
    /\ UNCHANGED <<files, last_save, pipeVars, runVars>>

\* the crypto encoder applied to the cleaned list
EncodeCrypto ==
    /\ phase = "cleaned"
    /\ csv_input' = cleaned_data
    /\ crypto_scaled' =
         [i \in 1..Len(cleaned_data) |->
            [f \in {"open", "high", "low", "close"} |-> EncodeCryptoPrice(cleaned_data[i][f])]]
    /\ phase' = "encoded_crypto"
    /\ UNCHANGED <<resolution, extVars, data, verdicts, cleaned_data, csv_lines>>
    /\ UNCHANGED <<files, last_save, pipeVars, runVars>>

NextData == Validate \/ Clean \/ Encode \/ EncodeRaises \/ EncodeCrypto

SpecData == InitData /\ [][NextData]_vars

\* ------------------------------------------------------------------------
\* The writers applied to a file system
\* ------------------------------------------------------------------------
\* lists of lines as create_lean_csv_simple produces them
SaveLines ==
    { create_lean_csv_simple(bars, "QQQ", "minute") : bars \in SeqsUpTo({ExampleBar, FineBar}, 2) }

\* 2024-01-01 and 2024-01-09, first days of two chunks
SavePaths ==
    { ChunkPath("QQQ", "minute", DateTime(19723, 0, 0, 0, 0)),
      ChunkPath("QQQ", "minute", DateTime(19731, 0, 0, 0, 0)) }

\* contracts of SPY expiring 2024-12-20, strike 500
Contracts ==
    { FormatContract("SPY", DateTime(20077, 0, 0, 0, 0), option_type, 500000, last_price, 10, 5) :
        option_type \in {"call", "put"}, last_price \in {Cents(125), Cents(125) + 1} }

InitSave ==
    /\ resolution = "minute"
    /\ files \in { <<>>, save_data_simple(<<>>, create_lean_csv_simple(<<RejectBar>>, "QQQ", "minute"),
                                         ChunkPath("QQQ", "minute", DateTime(19723, 0, 0, 0, 0))) }
    /\ last_save = NoSave
    /\ DataIdle
    /\ PipeIdle
    /\ RunIdle
    /\ ExtIdle

SaveData ==
    /\ \E lines \in SaveLines, output_path \in SavePaths :
         /\ files' = save_data_simple(files, lines, output_path)
         /\ last_save' = [done |-> TRUE, path |-> output_path, lines |-> lines, before |-> files]
    /\ UNCHANGED <<resolution, extVars, dataVars, runVars, pipeVars>>

SaveContract ==
    /\ \E contract_data \in Contracts :
         /\ files' = save_contract_data(files, contract_data)
         /\ last_save' =
              [ done |-> TRUE,
                path |-> get_lean_filepath(contract_data.symbol, contract_data.expiration,
                                           contract_data.option_type, contract_data.strike_milli),
                lines |-> << JoinCommas(<< IntStr(contract_data.open), IntStr(contract_data.high),
                                           IntStr(contract_data.low), IntStr(contract_data.close),
                                           IntStr(contract_data.volume),
                                           IntStr(contract_data.openinterest) >>) >>,
                before |-> files ]
    /\ UNCHANGED <<resolution, extVars, dataVars, runVars, pipeVars>>

NextSave == SaveData \/ SaveContract

SpecSave == InitSave /\ [][NextSave]_vars

\* ------------------------------------------------------------------------
\* NQDataDownloader.download_symbol_data
\* ------------------------------------------------------------------------
\* start_date is on 2024-01-01, at midnight or at 09:30
StartDates == { DateTime(19723, 0, 0, 0, 0), DateTime(19723, 9, 30, 0, 0) }

\* whole-day spans of the request: 0..MaxDays, and the 400 days of the example
Spans == (0..MaxDays) \cup {400}

\* end_date is a number of days later, at midnight or at 16:00
EndDates == { DateTime(19723 + span, h, 0, 0, 0) : span \in Spans, h \in {0, 16} }

\* the bars a provider may hold, oldest first: two on the first day (the
\* second one malformed), one on the next day, one a week after the first
MarketCandidates ==
    << Bar(DateTime(19723, 9, 31, 0, 0), Cents(38250), Cents(38265), Cents(38240), Cents(38255), 1050000),
       Bar(DateTime(19723, 9, 32, 0, 0), Cents(1000), Cents(900), Cents(800), Cents(950), 100),
       Bar(DateTime(19724, 9, 31, 0, 0), Cents(100) + 3, Cents(101) + 1, Cents(99) + 1, Cents(100), 0),
       Bar(DateTime(19730, 9, 31, 0, 0), Cents(38250), Cents(38265), Cents(38240), Cents(38255), 7) >>

\* the candidates with index in keep, in their order
RECURSIVE PickLoop(_, _, _)
PickLoop(keep, i, acc) ==
    IF i > Len(MarketCandidates) THEN acc
    ELSE PickLoop(keep, i + 1, IF i \in keep THEN Append(acc, MarketCandidates[i]) ELSE acc)

Markets == { PickLoop(keep, 1, <<>>) : keep \in SUBSET (1..Len(MarketCandidates)) }

InWindow(bar, s, e) == DtLE(s, bar["timestamp"]) /\ DtLE(bar["timestamp"], e)

\* the list comprehension "bar for bar in bars if start_date <= bar['timestamp'] <= end_date"
RECURSIVE FilterWindow(_, _, _)
FilterWindow(bars, s, e) ==
    IF Len(bars) = 0 THEN <<>>
    ELSE (IF InWindow(Head(bars), s, e) THEN <<Head(bars)>> ELSE <<>>) \o FilterWindow(Tail(bars), s, e)

\* get_alpha_vantage_data: the provider's whole series, or [] on any error
AlphaVantageData(ok) == IF ok THEN market ELSE <<>>

\* get_yahoo_finance_data: the provider's bars between period1 and period2,
\* or [] on any error
YahooFinanceData(ok, s, e) == IF ok THEN FilterWindow(market, s, e) ELSE <<>>

\* NQDataDownloader.get_bars
get_bars(res, s, e, av_ok, yahoo_ok) ==
    LET bars     == IF api_key THEN AlphaVantageData(av_ok) ELSE <<>>
        all_bars == IF Len(bars) > 0 THEN FilterWindow(bars, s, e) ELSE <<>>
    IN  IF Len(all_bars) = 0 /\ res = "minute"
        THEN all_bars \o YahooFinanceData(yahoo_ok, s, e)
        ELSE all_bars

\* the next chunk starting where this one ended: current_start = chunk_end
NextStartWithoutDay(chunk_end) == chunk_end

\* line 310: current_start = chunk_end + timedelta(days=1)
NextStart(chunk_end) == AddDays(chunk_end, 1)

\* the same lines without the call of clean_ohlcv_data_simple
ProcessChunkWithoutCleaning(bars, output_path) ==
    LET lines == IF Len(bars) > 0 THEN create_lean_csv_simple(bars, "QQQ", resolution) ELSE <<>>
    IN  IF Len(lines) > 0
        THEN [ files |-> save_data_simple(files, lines, output_path),
               provenance |-> [q \in DOMAIN provenance \cup {output_path} |->
                                 IF q = output_path THEN bars ELSE provenance[q]],
               last_save |-> [done |-> TRUE, path |-> output_path, lines |-> lines, before |-> files] ]
        ELSE [ files |-> files, provenance |-> provenance, last_save |-> last_save ]

\* lines 291-308 / 316-328: clean, encode and save what get_bars returned
\* (result: the new file system and the new provenance)
ProcessChunk(bars, output_path) ==
    LET cleaned == IF Len(bars) > 0 THEN clean_ohlcv_data_simple(bars) ELSE <<>>
        lines   == IF Len(cleaned) > 0 THEN create_lean_csv_simple(cleaned, "QQQ", resolution) ELSE <<>>
    IN  IF Len(lines) > 0
        THEN [ files |-> save_data_simple(files, lines, output_path),
               provenance |-> [q \in DOMAIN provenance \cup {output_path} |->
                                 IF q = output_path THEN cleaned ELSE provenance[q]],
               last_save |-> [done |-> TRUE, path |-> output_path, lines |-> lines, before |-> files] ]
        ELSE [ files |-> files, provenance |-> provenance, last_save |-> last_save ]

Init ==
    /\ resolution \in Resolutions
    /\ start_date \in StartDates
    /\ end_date \in EndDates
    /\ DtLE(start_date, end_date)
    /\ api_key \in BOOLEAN
    /\ market \in Markets
    /\ pc = "call"
    /\ current_start = start_date
    /\ fetched = <<>>
    /\ provenance = <<>>
    /\ files \in { <<>>, save_data_simple(<<>>, create_lean_csv_simple(<<RejectBar>>, "QQQ", "minute"),
                                         ChunkPath("QQQ", "minute", DateTime(19723, 0, 0, 0, 0))) }
    /\ last_save = NoSave
    /\ DataIdle
    /\ RunIdle
    /\ ExtIdle

\* lines 280-282: entering the minute branch
EnterMinute ==
    /\ pc = "call"
    /\ resolution = "minute"
    /\ current_start' = start_date
    /\ pc' = "loop"
    /\ UNCHANGED <<resolution, extVars, dataVars, runVars, files, last_save, start_date, end_date, api_key,
                   market, fetched, provenance>>

\* lines 284-311: one iteration of the chunk loop
MinuteChunk ==
    /\ pc = "loop"
    /\ DtLE(current_start, end_date)
    /\ \E av_ok \in BOOLEAN, yahoo_ok \in BOOLEAN :
         LET chunk_end == DtMin(AddDays(current_start, chunk_days), end_date)
             bars      == get_bars(resolution, current_start, chunk_end, av_ok, yahoo_ok)
             out       == ProcessChunk(bars, ChunkPath("QQQ", resolution, current_start))
         IN  /\ fetched' = Append(fetched, [start |-> current_start, end |-> chunk_end])
             /\ files' = out.files
             /\ provenance' = out.provenance
             /\ last_save' = out.last_save
             /\ current_start' = NextStart(chunk_end)
    /\ UNCHANGED <<resolution, extVars, dataVars, runVars, start_date, end_date, api_key, market, pc>>

\* line 284: the loop condition fails
LoopExit ==
    /\ pc = "loop"
    /\ ~DtLE(current_start, end_date)
    /\ pc' = "done"
    /\ UNCHANGED <<resolution, extVars, dataVars, runVars, files, last_save, start_date, end_date, api_key,
                   market, current_start, fetched, provenance>>

\* lines 312-328: the daily / hourly branch, one fetch for the whole range
RangeFetch ==
    /\ pc = "call"
    /\ resolution # "minute"
    /\ \E av_ok \in BOOLEAN, yahoo_ok \in BOOLEAN :
         LET bars == get_bars(resolution, start_date, end_date, av_ok, yahoo_ok)
             out  == ProcessChunk(bars, RangePath("QQQ", resolution))
         IN  /\ fetched' = Append(fetched, [start |-> start_date, end |-> end_date])
             /\ files' = out.files
             /\ provenance' = out.provenance
             /\ last_save' = out.last_save
    /\ pc' = "done"
    /\ UNCHANGED <<resolution, extVars, dataVars, runVars, start_date, end_date, api_key, market, current_start>>

Next == EnterMinute \/ MinuteChunk \/ LoopExit \/ RangeFetch

Spec == Init /\ [][Next]_vars

\* ------------------------------------------------------------------------
\* NQDataDownloader.download_multiple_symbols
\* ------------------------------------------------------------------------
\* NQDataDownloader.__init__: self.rate_limit_delay = 60 / NQ_RATE_LIMIT
rate_limit_delay == 60 \div NQ_RATE_LIMIT

\* what the Alpha Vantage endpoint may answer to one request
AvResponses ==
    { "series",             \* a time series of well-formed bars
      "invalid_series",     \* a time series whose bars break the OHLC order
      "request_exception",  \* connection error, timeout, HTTP error status, body that is not JSON
      "error_message",      \* the provider's 'Error Message'
      "note",               \* the provider's rate-limit 'Note'
      "null_field" }        \* a record whose '1. open' is null

\* what the Yahoo chart endpoint may answer to one request
YahooResponses ==
    { "result",             \* a chart result of well-formed bars
      "invalid_result",     \* a chart result whose bars break the OHLC order
      "request_exception",  \* connection error, timeout, HTTP error status, body that is not JSON
      "no_result",          \* no 'chart' key or an empty result
      "empty_quote" }       \* a result whose indicators.quote list is empty

\* the answers that carry bars
NominalResponses == {"series", "result", "history"}

\* the bars the providers hold, oldest first: one on the first day of the
\* request and one eight days later
GoodSeries ==
    << Bar(DateTime(19723, 9, 31, 0, 0), Cents(38250), Cents(38265), Cents(38240), Cents(38255), 1050000),
       Bar(DateTime(19731, 9, 31, 0, 0), Cents(100) + 3, Cents(101) + 1, Cents(99) + 1, Cents(100), 0) >>

\* the same bars with high below open
InvalidSeries ==
    << Bar(DateTime(19723, 9, 31, 0, 0), Cents(1000), Cents(900), Cents(800), Cents(950), 100),
       Bar(DateTime(19731, 9, 31, 0, 0), Cents(1000), Cents(900), Cents(800), Cents(950), 100) >>

\* the same method without the time.sleep(60) of line 76
get_alpha_vantage_data_without_wait(response) ==
    CASE response = "series"            -> [raised |-> "none", bars |-> GoodSeries, slept |-> 0]
      [] response = "invalid_series"    -> [raised |-> "none", bars |-> InvalidSeries, slept |-> 0]
      [] response = "request_exception" -> [raised |-> "none", bars |-> <<>>, slept |-> 0]
      [] response = "error_message"     -> [raised |-> "none", bars |-> <<>>, slept |-> 0]
      [] response = "note"              -> [raised |-> "none", bars |-> <<>>, slept |-> 0]
      [] response = "null_field"        -> [raised |-> "TypeError", bars |-> <<>>, slept |-> 0]

\* NQDataDownloader.get_alpha_vantage_data: the bars returned, the exception
\* that leaves the method, the time slept inside it
get_alpha_vantage_data(response) ==
    CASE response = "series"            -> [raised |-> "none", bars |-> GoodSeries, slept |-> 0]
      [] response = "invalid_series"    -> [raised |-> "none", bars |-> InvalidSeries, slept |-> 0]
      [] response = "request_exception" -> [raised |-> "none", bars |-> <<>>, slept |-> 0]
      [] response = "error_message"     -> [raised |-> "none", bars |-> <<>>, slept |-> 0]
      [] response = "note"              -> [raised |-> "none", bars |-> <<>>, slept |-> 60]
      [] response = "null_field"        -> [raised |-> "TypeError", bars |-> <<>>, slept |-> 0]

\* NQDataDownloader.get_yahoo_finance_data
get_yahoo_finance_data(response, s, e) ==
    CASE response = "result"            -> [raised |-> "none", bars |-> FilterWindow(GoodSeries, s, e)]
      [] response = "invalid_result"    -> [raised |-> "none", bars |-> FilterWindow(InvalidSeries, s, e)]
      [] response = "request_exception" -> [raised |-> "none", bars |-> <<>>]
      [] response = "no_result"         -> [raised |-> "none", bars |-> <<>>]
      [] response = "empty_quote"       -> [raised |-> "IndexError", bars |-> <<>>]

\* one request as the log keeps it: sent at time at, during the call-th
\* download_symbol_data call of the run
Request(provider, symbol, s, e, response, at, call) ==
    [ provider |-> provider, symbol |-> symbol, start |-> s, end |-> e,
      response |-> response, at |-> at, call |-> call ]

\* line 214: the trailing time.sleep of get_bars, reached unless an
\* exception left an adapter
GetBarsTrailingSleep(exception) == IF exception = "none" THEN rate_limit_delay ELSE 0

\* NQDataDownloader.get_bars called at time at: the bars returned, the
\* exception that leaves it, the requests it sent, the time it slept
GetBarsOutcome(symbol, res, s, e, av_response, yahoo_response, at, call) ==
    LET quiet     == [raised |-> "none", bars |-> <<>>, slept |-> 0]
        av        == IF api_key THEN get_alpha_vantage_data(av_response) ELSE quiet
        av_sent   == IF api_key
                     THEN << Request("alphavantage", symbol, s, e, av_response, at, call) >>
                     ELSE <<>>
        all_bars  == IF Len(av.bars) > 0 THEN FilterWindow(av.bars, s, e) ELSE <<>>
        use_yahoo == av.raised = "none" /\ Len(all_bars) = 0 /\ res = "minute"
        yh        == IF use_yahoo THEN get_yahoo_finance_data(yahoo_response, s, e)
                     ELSE [raised |-> "none", bars |-> <<>>]
        yh_sent   == IF use_yahoo
                     THEN << Request("yahoo", symbol, s, e, yahoo_response, at + av.slept, call) >>
                     ELSE <<>>
        exception == IF av.raised # "none" THEN av.raised ELSE yh.raised
    IN  [ raised   |-> exception,
          bars     |-> IF exception = "none" THEN all_bars \o yh.bars ELSE <<>>,
          requests |-> av_sent \o yh_sent,
          slept    |-> av.slept + GetBarsTrailingSleep(exception) ]

\* a guard that lets every chunk through to the writer
WritesFileAlways(lines) == TRUE

\* lines 295 and 299 / 319 and 322: "if cleaned_data:" and "if csv_lines:",
\* nothing is written for an empty list
WritesFile(lines) == Len(lines) > 0

\* lines 291-308 / 316-328 with a write error caught and ignored
ProcessBarsIgnoringWriteError(fs, bars, symbol, output_path, write_ok) ==
    LET cleaned == IF Len(bars) > 0 THEN clean_ohlcv_data_simple(bars) ELSE <<>>
        lines   == IF Len(cleaned) > 0 THEN create_lean_csv_simple(cleaned, symbol, resolution) ELSE <<>>
        writes  == WritesFile(lines)
    IN  [ raised       |-> "none",
          files        |-> IF writes /\ write_ok THEN save_data_simple(fs, lines, output_path) ELSE fs,
          cleaned      |-> cleaned,
          write_failed |-> writes /\ ~write_ok ]

\* lines 291-308 / 316-328: clean, encode and save what get_bars returned;
\* makedirs or open raises OSError when the disk refuses the write
ProcessBars(fs, bars, symbol, output_path, write_ok) ==
    LET cleaned == IF Len(bars) > 0 THEN clean_ohlcv_data_simple(bars) ELSE <<>>
        lines   == IF Len(cleaned) > 0 THEN create_lean_csv_simple(cleaned, symbol, resolution) ELSE <<>>
        writes  == WritesFile(lines)
    IN  [ raised       |-> IF writes /\ ~write_ok THEN "OSError" ELSE "none",
          files        |-> IF writes /\ write_ok THEN save_data_simple(fs, lines, output_path) ELSE fs,
          cleaned      |-> cleaned,
          write_failed |-> writes /\ ~write_ok ]

\* the number of requests of a list that were not answered with bars
RECURSIVE FailedCount(_)
FailedCount(sent) ==
    IF Len(sent) = 0 THEN 0
    ELSE (IF Head(sent).response \in NominalResponses THEN 0 ELSE 1) + FailedCount(Tail(sent))

\* the symbol lists of a run: the first symbols of NQ_SYMBOLS, up to MaxSymbols
SymbolLists == { SubSeq(NQ_SYMBOLS, 1, n) : n \in 0..MaxSymbols }

\* the request starts on 2024-01-01 00:00 and ends at 16:00 of the same day
\* (one chunk) or nine days later (two chunks)
RunStart == DateTime(19723, 0, 0, 0, 0)
RunEnds == { DateTime(19723 + span, 16, 0, 0, 0) : span \in {0, 9} }

\* a file left by an earlier run at the key of the first chunk of QQQ
StaleFiles ==
    save_data_simple(<<>>, create_lean_csv_simple(<<RejectBar>>, "QQQ", "minute"),
                     ChunkPath("QQQ", "minute", RunStart))

InitRun ==
    /\ resolution \in Resolutions
    /\ symbols \in SymbolLists
    /\ start_date = RunStart
    /\ end_date \in RunEnds
    /\ api_key \in BOOLEAN
    /\ market = GoodSeries
    /\ pc = "for"
    /\ sym_i = 0
    /\ current_start = start_date
    /\ fetched = <<>>
    /\ provenance = <<>>
    /\ files \in { <<>>, StaleFiles }
    /\ last_save = NoSave
    /\ attempted = <<>>
    /\ requests = <<>>
    /\ slept = 0
    /\ raised = "none"
    /\ errors = <<>>
    /\ return_value = "not returned"
    /\ last_chunk = NoChunk
    /\ faults = 0
    /\ DataIdle
    /\ ExtIdle

\* line 335-337: the for loop takes the next symbol and calls download_symbol_data
NextSymbol ==
    /\ pc = "for"
    /\ sym_i < Len(symbols)
    /\ sym_i' = sym_i + 1
    /\ attempted' = Append(attempted, symbols[sym_i + 1])
    /\ pc' = "call"
    /\ UNCHANGED <<resolution, extVars, dataVars, files, last_save, start_date, end_date, api_key,
                   market, current_start, fetched, provenance, symbols, requests, slept,
                   raised, errors, return_value, last_chunk, faults>>

\* lines 284-311: one iteration of the chunk loop for the current symbol
SymbolMinuteChunk ==
    /\ pc = "loop"
    /\ DtLE(current_start, end_date)
    /\ \E av_response \in AvResponses, yahoo_response \in YahooResponses, write_ok \in BOOLEAN :
         LET symbol    == symbols[sym_i]
             chunk_end == DtMin(AddDays(current_start, chunk_days), end_date)
             got       == GetBarsOutcome(symbol, resolution, current_start, chunk_end,
                                         av_response, yahoo_response, slept, sym_i)
             output    == ChunkPath(symbol, resolution, current_start)
             out       == ProcessBars(files, got.bars, symbol, output, write_ok)
             failures  == FailedCount(got.requests) + (IF out.write_failed THEN 1 ELSE 0)
         IN  /\ faults + failures <= MaxFaults
             /\ faults' = faults + failures
             /\ requests' = requests \o got.requests
             /\ IF got.raised # "none"
                THEN /\ raised' = got.raised
                     /\ pc' = "raised"
                     /\ slept' = slept + got.slept
                     /\ UNCHANGED <<files, last_chunk, fetched, current_start>>
                ELSE /\ fetched' = Append(fetched, [start |-> current_start, end |-> chunk_end,
                                                    call |-> sym_i, sent |-> Len(requests'),
                                                    write_failed |-> out.write_failed])
                     /\ last_chunk' = [done |-> TRUE, path |-> output, data |-> got.bars,
                                       cleaned |-> out.cleaned, before |-> files]
                     /\ files' = out.files
                     /\ IF out.raised # "none"
                        THEN /\ raised' = out.raised
                             /\ pc' = "raised"
                             /\ slept' = slept + got.slept
                             /\ UNCHANGED current_start
                        ELSE /\ current_start' = NextStart(chunk_end)
                             /\ slept' = slept + got.slept + rate_limit_delay * 2
                             /\ UNCHANGED <<raised, pc>>
    /\ UNCHANGED <<resolution, extVars, dataVars, last_save, start_date, end_date, api_key, market,
                   provenance, symbols, sym_i, attempted, errors, return_value>>

\* lines 312-328: the daily / hourly branch for the current symbol
SymbolRangeFetch ==
    /\ pc = "call"
    /\ resolution # "minute"
    /\ \E av_response \in AvResponses, yahoo_response \in YahooResponses, write_ok \in BOOLEAN :
         LET symbol   == symbols[sym_i]
             got      == GetBarsOutcome(symbol, resolution, start_date, end_date,
                                        av_response, yahoo_response, slept, sym_i)
             output   == RangePath(symbol, resolution)
             out      == ProcessBars(files, got.bars, symbol, output, write_ok)
             failures == FailedCount(got.requests) + (IF out.write_failed THEN 1 ELSE 0)
         IN  /\ faults + failures <= MaxFaults
             /\ faults' = faults + failures
             /\ requests' = requests \o got.requests
             /\ slept' = slept + got.slept
             /\ IF got.raised # "none"
                THEN /\ raised' = got.raised
                     /\ pc' = "raised"
                     /\ UNCHANGED <<files, last_chunk, fetched>>
                ELSE /\ fetched' = Append(fetched, [start |-> start_date, end |-> end_date,
                                                    call |-> sym_i, sent |-> Len(requests'),
                                                    write_failed |-> out.write_failed])
                     /\ last_chunk' = [done |-> TRUE, path |-> output, data |-> got.bars,
                                       cleaned |-> out.cleaned, before |-> files]
                     /\ files' = out.files
                     /\ raised' = out.raised
                     /\ pc' = IF out.raised # "none" THEN "raised" ELSE "done"
    /\ UNCHANGED <<resolution, extVars, dataVars, last_save, start_date, end_date, api_key, market,
                   current_start, provenance, symbols, sym_i, attempted, errors, return_value>>

\* download_symbol_data returns and the for loop goes on
SymbolReturns ==
    /\ pc = "done"
    /\ pc' = "for"
    /\ UNCHANGED <<resolution, extVars, dataVars, files, last_save, start_date, end_date, api_key,
                   market, current_start, fetched, provenance, runVars>>

\* a for loop without a try statement: the exception leaves the method
NoExceptClause(exception) == [caught |-> FALSE, pc |-> "escaped"]

\* lines 338-340: "except Exception as e: logger.error(...); continue"
ExceptClause(exception) == [caught |-> TRUE, pc |-> "for"]

\* the exception raised inside download_symbol_data reaches the handler
SymbolRaises ==
    /\ pc = "raised"
    /\ LET handler == ExceptClause(raised)
       IN  /\ pc' = handler.pc
           /\ raised' = IF handler.caught THEN "none" ELSE raised
           /\ errors' = IF handler.caught
                        THEN Append(errors, [symbol |-> symbols[sym_i], exception |-> raised,
                                             call |-> sym_i])
                        ELSE errors
    /\ UNCHANGED <<resolution, extVars, dataVars, files, last_save, start_date, end_date, api_key,
                   market, current_start, fetched, provenance, symbols, sym_i, attempted,
                   requests, slept, return_value, last_chunk, faults>>

\* line 342 and the implicit "return None" after the loop
RunReturns ==
    /\ pc = "for"
    /\ sym_i = Len(symbols)
    /\ pc' = "returned"
    /\ return_value' = "None"
    /\ UNCHANGED <<resolution, extVars, dataVars, files, last_save, start_date, end_date, api_key,
                   market, current_start, fetched, provenance, symbols, sym_i, attempted,
                   requests, slept, raised, errors, last_chunk, faults>>

NextRun ==
    \/ NextSymbol
    \/ EnterMinute
    \/ SymbolMinuteChunk
    \/ LoopExit
    \/ SymbolRangeFetch
    \/ SymbolReturns
    \/ SymbolRaises
    \/ RunReturns

SpecRun == InitRun /\ [][NextRun]_vars

\* ------------------------------------------------------------------------
\* YahooDataDownloader
\* ------------------------------------------------------------------------
\* YahooDataDownloader.__init__: self.rate_limit_delay = 60 / YAHOO_RATE_LIMIT.
\* config.py defines no YAHOO_RATE_LIMIT, so time is counted here in units of
\* this delay
yahoo_rate_limit_delay == 1

\* FUTURES_DATA_PATH, the asset root of the futures files
FUTURES_DATA_PATH == Chars("futures/usa")

\* what ticker.history may do for one request
HistoryResponses ==
    { "history",     \* a frame with the rows the provider holds
      "empty",       \* an empty frame
      "exception" }  \* yfinance raises

\* YahooDataDownloader.get_bars called at time at: the bars returned, the
\* request sent (lines 42-44: ticker.history is given the two dates formatted
\* as YYYY-MM-DD), the time slept
YahooGetBars(symbol, s, e, response, at, call) ==
    [ bars     |-> IF response = "history" THEN market ELSE <<>>,
      requests |-> << Request("yahoo", symbol, StrfIsoDate(s), StrfIsoDate(e), response, at, call) >>,
      slept    |-> IF response = "history" /\ Len(market) > 0 THEN yahoo_rate_limit_delay ELSE 0 ]

\* DataValidator.clean_ohlcv_data
clean_ohlcv_data(bars) == clean_ohlcv_data_simple(bars)

\* create_lean_futures_csv: one row per bar, in the order of the bars
create_lean_futures_csv(date_bars, res) ==
    [ i \in DOMAIN date_bars |->
        JoinCommas(<< TimeField(date_bars[i]["timestamp"], res),
                      IntStr(RoundHalfEven(date_bars[i]["open"], UnitsPerScaled(LEAN_PRICE_MULTIPLIER))),
                      IntStr(RoundHalfEven(date_bars[i]["high"], UnitsPerScaled(LEAN_PRICE_MULTIPLIER))),
                      IntStr(RoundHalfEven(date_bars[i]["low"], UnitsPerScaled(LEAN_PRICE_MULTIPLIER))),
                      IntStr(RoundHalfEven(date_bars[i]["close"], UnitsPerScaled(LEAN_PRICE_MULTIPLIER))),
                      IntStr(date_bars[i]["volume"]) >>) ]

\* write_lean_zip_file: the archive at output_path holds one member,
\* csv_filename, with the rows
write_lean_zip_file(fs, csv_content, output_path, csv_filename) ==
    [ p \in DOMAIN fs \cup {output_path} |->
        IF p = output_path THEN csv_filename \o <<":">> \o WriteLines(csv_content) ELSE fs[p] ]

\* line 117: bar['timestamp'].strftime(LEAN_TIME_FORMAT)
DateKey(bar) == StrfDate(bar["timestamp"])

\* lines 115-120: daily_data, the bars of each date key in the order met
DailyData(cleaned_bars) ==
    [ date_key \in { DateKey(cleaned_bars[i]) : i \in DOMAIN cleaned_bars } |->
        SelectSeq(cleaned_bars, LAMBDA bar : DateKey(bar) = date_key) ]

\* comparison of two strings of digits of the same length, as Python
\* compares str values
RECURSIVE StrLess(_, _)
StrLess(a, b) ==
    IF Len(a) = 0 \/ Len(b) = 0 THEN Len(a) < Len(b)
    ELSE IF Head(a) = Head(b) THEN StrLess(Tail(a), Tail(b))
    ELSE \E m, n \in 0..9 : DigitChar(m) = Head(a) /\ DigitChar(n) = Head(b) /\ m < n

\* the smallest of a set of date keys
MinKey(keys) == CHOOSE k \in keys : \A other \in keys \ {k} : StrLess(k, other)

\* the date keys from the largest to the smallest
RECURSIVE SortedDescending(_)
SortedDescending(keys) ==
    IF keys = {} THEN <<>>
    ELSE SortedDescending(keys \ {MinKey(keys)}) \o <<MinKey(keys)>>

\* line 124: sorted(daily_data.keys())
RECURSIVE Sorted(_)
Sorted(keys) ==
    IF keys = {} THEN <<>> ELSE <<MinKey(keys)>> \o Sorted(keys \ {MinKey(keys)})

\* lines 123-127: all_csv_content, the rows of the groups taken in the order
\* of the date keys
RECURSIVE AllCsvContent(_, _, _)
AllCsvContent(daily_data, date_keys, res) ==
    IF Len(date_keys) = 0 THEN <<>>
    ELSE create_lean_futures_csv(daily_data[Head(date_keys)], res)
           \o AllCsvContent(daily_data, Tail(date_keys), res)

\* the bars those rows come from, in the order of the rows
RECURSIVE AllCsvBars(_, _)
AllCsvBars(daily_data, date_keys) ==
    IF Len(date_keys) = 0 THEN <<>>
    ELSE daily_data[Head(date_keys)] \o AllCsvBars(daily_data, Tail(date_keys))

\* line 111: {base_path}/{resolution}/{symbol.lower()}.zip
YahooRangePath(symbol, res) ==
    PathJoin(PathJoin(FUTURES_DATA_PATH, Chars(res)), LowerChars(symbol) \o Chars(".zip"))

\* line 112: {symbol.lower()}_{resolution}_trade.csv
YahooRangeMember(symbol, res) ==
    LowerChars(symbol) \o <<"_">> \o Chars(res) \o Chars("_trade.csv")

\* lines 149-154: {base_path}/{resolution}/{symbol.lower()}/{date}_trade.zip
YahooDayPath(symbol, res, date) ==
    PathJoin(PathJoin(PathJoin(FUTURES_DATA_PATH, Chars(res)), LowerChars(symbol)),
             StrfDate(date) \o Chars("_trade.zip"))

\* line 155: {date}_{symbol.lower()}_{resolution}_trade.csv
YahooDayMember(symbol, res, date) ==
    StrfDate(date) \o <<"_">> \o LowerChars(symbol) \o <<"_">> \o Chars(res) \o Chars("_trade.csv")

\* day of the week of a day number, Monday = 0 (datetime.weekday)
Weekday(days) == (days + 3) % 7

\* get_trading_days: whether a date is a trading day
IsTradingDay(date) == Weekday(date.date) < 5

\* the first trading day on or after a date
RECURSIVE NextTradingDay(_)
NextTradingDay(date) == IF IsTradingDay(date) THEN date ELSE NextTradingDay(AddDays(date, 1))

\* the symbols of YahooDataDownloader's own main()
YAHOO_TEST_SYMBOLS == <<"ES=F", "NQ=F", "CL=F">>

YahooSymbolLists == { SubSeq(YAHOO_TEST_SYMBOLS, 1, n) : n \in 0..MaxSymbols }

\* bars the provider may hold, already in exchange time: two on Friday
\* 2024-01-05, one of them malformed, and two on Monday 2024-01-08
YahooSampleBars ==
    { Bar(DateTime(19727, 10, 0, 0, 0), Cents(100), Cents(101), Cents(99), Cents(100), 7),
      Bar(DateTime(19727, 11, 0, 0, 0), Cents(1000), Cents(900), Cents(800), Cents(950), 100),
      Bar(DateTime(19730, 10, 0, 0, 0), Cents(100) + 3, Cents(101) + 1, Cents(99) + 1, Cents(100), 0),
      Bar(DateTime(19730, 11, 0, 0, 0), Cents(38250), Cents(38265), Cents(38240), Cents(38255), 1050000) }

YahooHistories == SeqsUpTo(YahooSampleBars, MaxLen)

YahooStart == DateTime(19727, 0, 0, 0, 0)
YahooEnds == { DateTime(19727, 0, 0, 0, 0), DateTime(19730, 0, 0, 0, 0) }

\* the state at the call of download_multiple_symbols
YahooCallState ==
    /\ start_date = YahooStart
    /\ api_key = FALSE
    /\ pc = "for"
    /\ sym_i = 0
    /\ current_start = start_date
    /\ fetched = <<>>
    /\ provenance = <<>>
    /\ files = <<>>
    /\ last_save = NoSave
    /\ attempted = <<>>
    /\ requests = <<>>
    /\ slept = 0
    /\ raised = "none"
    /\ errors = <<>>
    /\ return_value = "not returned"
    /\ last_chunk = NoChunk
    /\ faults = 0
    /\ DataIdle
    /\ ExtIdle

\* lines 106-131 / 143-162: clean, encode and archive what get_bars returned
YahooProcess(fs, prov, bars, res, by_date, output_path, csv_filename, write_ok) ==
    LET cleaned  == IF Len(bars) > 0 THEN clean_ohlcv_data(bars) ELSE <<>>
        keys     == Sorted(DOMAIN DailyData(cleaned))
        grouped  == IF by_date
                    THEN [ rows |-> AllCsvContent(DailyData(cleaned), keys, res),
                           bars |-> AllCsvBars(DailyData(cleaned), keys) ]
                    ELSE [ rows |-> create_lean_futures_csv(cleaned, res), bars |-> cleaned ]
        writes   == Len(cleaned) > 0 /\ Len(grouped.rows) > 0
    IN  [ raised       |-> IF writes /\ ~write_ok THEN "OSError" ELSE "none",
          files        |-> IF writes /\ write_ok
                           THEN write_lean_zip_file(fs, grouped.rows, output_path, csv_filename)
                           ELSE fs,
          provenance   |-> IF writes /\ write_ok
                           THEN [q \in DOMAIN prov \cup {output_path} |->
                                   IF q = output_path THEN grouped.bars ELSE prov[q]]
                           ELSE prov,
          cleaned      |-> cleaned,
          write_failed |-> writes /\ ~write_ok ]

\* lines 102-131: the daily / hourly branch for the current symbol
YahooRangeFetch ==
    /\ pc = "call"
    /\ resolution \in {"daily", "hour"}
    /\ \E response \in HistoryResponses, write_ok \in BOOLEAN :
         \E got \in { YahooGetBars(symbols[sym_i], start_date, end_date, response, slept, sym_i) },
            output \in { YahooRangePath(symbols[sym_i], resolution) } :
         \E out \in { YahooProcess(files, provenance, got.bars, resolution, TRUE, output,
                                   YahooRangeMember(symbols[sym_i], resolution), write_ok) } :
         \E failures \in { FailedCount(got.requests) + (IF out.write_failed THEN 1 ELSE 0) } :
             /\ faults + failures <= MaxFaults
             /\ faults' = faults + failures
             /\ requests' = requests \o got.requests
             /\ slept' = slept + got.slept
             /\ fetched' = Append(fetched, [start |-> start_date, end |-> end_date,
                                            call |-> sym_i, sent |-> Len(requests'),
                                            write_failed |-> out.write_failed])
             /\ last_chunk' = [done |-> TRUE, path |-> output, data |-> got.bars,
                               cleaned |-> out.cleaned, before |-> files]
             /\ files' = out.files
             /\ provenance' = out.provenance
             /\ raised' = out.raised
             /\ pc' = IF out.raised # "none" THEN "raised" ELSE "done"
    /\ UNCHANGED <<resolution, extVars, dataVars, last_save, start_date, end_date, api_key, market,
                   current_start, symbols, sym_i, attempted, errors, return_value>>

\* lines 133-137: the sub-daily branch starts on the first trading day
YahooEnterDays ==
    /\ pc = "call"
    /\ resolution \notin {"daily", "hour"}
    /\ current_start' = NextTradingDay(start_date)
    /\ pc' = "loop"
    /\ UNCHANGED <<resolution, extVars, dataVars, files, last_save, start_date, end_date, api_key,
                   market, fetched, provenance, runVars>>

\* lines 137-165: one trading day of the sub-daily branch
YahooDayChunk ==
    /\ pc = "loop"
    /\ DtLE(current_start, end_date)
    /\ \E response \in HistoryResponses, write_ok \in BOOLEAN :
         \E date_start \in { [current_start EXCEPT !.hour = 0, !.minute = 0, !.second = 0] },
            date_end \in { [current_start EXCEPT !.hour = 23, !.minute = 59, !.second = 59] },
            output \in { YahooDayPath(symbols[sym_i], resolution, current_start) } :
         \E got \in { YahooGetBars(symbols[sym_i], date_start, date_end, response, slept, sym_i) } :
         \E out \in { YahooProcess(files, provenance, got.bars, resolution, FALSE, output,
                                   YahooDayMember(symbols[sym_i], resolution, current_start),
                                   write_ok) } :
         \E failures \in { FailedCount(got.requests) + (IF out.write_failed THEN 1 ELSE 0) } :
             /\ faults + failures <= MaxFaults
             /\ faults' = faults + failures
             /\ requests' = requests \o got.requests
             /\ fetched' = Append(fetched, [start |-> date_start, end |-> date_end,
                                            call |-> sym_i, sent |-> Len(requests'),
                                            write_failed |-> out.write_failed])
             /\ last_chunk' = [done |-> TRUE, path |-> output, data |-> got.bars,
                               cleaned |-> out.cleaned, before |-> files]
             /\ files' = out.files
             /\ provenance' = out.provenance
             /\ raised' = out.raised
             /\ IF out.raised # "none"
                THEN /\ pc' = "raised"
                     /\ slept' = slept + got.slept
                     /\ UNCHANGED current_start
                ELSE /\ pc' = pc
                     /\ slept' = slept + got.slept + yahoo_rate_limit_delay
                     /\ current_start' = NextTradingDay(AddDays(current_start, 1))
    /\ UNCHANGED <<resolution, extVars, dataVars, last_save, start_date, end_date, api_key, market,
                   symbols, sym_i, attempted, errors, return_value>>

\* the daily / hourly branch of one call for one symbol, for every list of
\* rows the provider may hold
InitYahooRange ==
    /\ resolution \in {"daily", "hour"}
    /\ symbols = SubSeq(YAHOO_TEST_SYMBOLS, 1, 1)
    /\ end_date = DateTime(19730, 0, 0, 0, 0)
    /\ market \in YahooHistories
    /\ YahooCallState

NextYahooRange ==
    \/ NextSymbol
    \/ YahooRangeFetch
    \/ SymbolReturns
    \/ SymbolRaises
    \/ RunReturns

SpecYahooRange == InitYahooRange /\ [][NextYahooRange]_vars

\* YahooDataDownloader.download_multiple_symbols (lines 167-178, the same
\* loop as NQDataDownloader's) over a list of symbols
InitYahoo ==
    /\ resolution \in Resolutions
    /\ symbols \in YahooSymbolLists
    /\ end_date \in YahooEnds
    /\ market \in { << Bar(DateTime(19727, 10, 0, 0, 0), Cents(100), Cents(101), Cents(99), Cents(100), 7) >>,
                    << Bar(DateTime(19727, 11, 0, 0, 0), Cents(1000), Cents(900), Cents(800), Cents(950), 100) >> }
    /\ YahooCallState

NextYahoo ==
    \/ NextSymbol
    \/ YahooRangeFetch
    \/ YahooEnterDays
    \/ YahooDayChunk
    \/ LoopExit
    \/ SymbolReturns
    \/ SymbolRaises
    \/ RunReturns

SpecYahoo == InitYahoo /\ [][NextYahoo]_vars

\* ------------------------------------------------------------------------
\* download_symbol_data under an external kill, one write at a time
\* ------------------------------------------------------------------------
\* open(output_path, 'a'): the file keeps what it holds
OpenKeeping(fs, output_path) == OpenAppend(fs, output_path, <<>>)

\* line 271: open(output_path, 'w') creates the file or empties it
OpenTruncate(fs, output_path) == OpenWrite(fs, output_path, <<>>)

\* no file is open
NoHandle == <<>>

\* the file of the chunk is open and nothing is written yet
Handle(output_path, lines, then_pc, then_start) ==
    << [path |-> output_path, lines |-> lines, written |-> 0, pc |-> then_pc,
        current_start |-> then_start] >>

\* the state after one step of lines 289-308 for the bars get_bars returned:
\* with rows to write the file is opened, else the chunk is over
OpenOutput(bars, output_path, then_pc, then_start) ==
    LET cleaned == IF Len(bars) > 0 THEN clean_ohlcv_data_simple(bars) ELSE <<>>
        lines   == IF Len(cleaned) > 0 THEN create_lean_csv_simple(cleaned, "QQQ", resolution) ELSE <<>>
    IN  IF Len(lines) > 0
        THEN [ files |-> OpenTruncate(files, output_path),
               intended |-> [q \in DOMAIN intended \cup {output_path} |->
                               IF q = output_path THEN WriteLines(lines) ELSE intended[q]],
               provenance |-> [q \in DOMAIN provenance \cup {output_path} |->
                                 IF q = output_path THEN cleaned ELSE provenance[q]],
               pending |-> Handle(output_path, lines, then_pc, then_start),
               pc |-> "writing",
               current_start |-> current_start ]
        ELSE [ files |-> files, intended |-> intended, provenance |-> provenance,
               pending |-> NoHandle, pc |-> then_pc, current_start |-> then_start ]

\* the ranges of the killed run: one chunk, or two chunks that both have bars
KillStart == DateTime(19722, 0, 0, 0, 0)
KillEnds == { DateTime(19722 + span, 16, 0, 0, 0) : span \in {1, 9} }

\* a first run into an empty output directory
InitKill ==
    /\ resolution \in Resolutions
    /\ start_date = KillStart
    /\ end_date \in KillEnds
    /\ api_key \in BOOLEAN
    /\ market \in Markets
    /\ pc = "call"
    /\ current_start = start_date
    /\ fetched = <<>>
    /\ provenance = <<>>
    /\ files = <<>>
    /\ last_save = NoSave
    /\ intended = <<>>
    /\ pending = NoHandle
    /\ kills = <<>>
    /\ DataIdle /\ RunIdle /\ AdapterIdle /\ MainIdle /\ StrategyIdle

\* lines 284-304 and 271: one chunk is fetched and its file is opened
OpenChunk ==
    /\ pc = "loop"
    /\ DtLE(current_start, end_date)
    /\ \E av_ok \in BOOLEAN, yahoo_ok \in BOOLEAN :
         \E chunk_end \in { DtMin(AddDays(current_start, chunk_days), end_date) } :
           \E out \in { OpenOutput(get_bars(resolution, current_start, chunk_end, av_ok, yahoo_ok),
                                   ChunkPath("QQQ", resolution, current_start),
                                   "loop", NextStart(chunk_end)) } :
             /\ fetched' = Append(fetched, [start |-> current_start, end |-> chunk_end])
             /\ files' = out.files
             /\ intended' = out.intended
             /\ provenance' = out.provenance
             /\ pending' = out.pending
             /\ pc' = out.pc
             /\ current_start' = out.current_start
    /\ UNCHANGED <<resolution, dataVars, runVars, adapterVars, mainVars, strategyVars,
                   last_save, start_date, end_date, api_key, market, kills>>

\* lines 312-325 and 271: the whole range is fetched and its file is opened
OpenRange ==
    /\ pc = "call"
    /\ resolution # "minute"
    /\ \E av_ok \in BOOLEAN, yahoo_ok \in BOOLEAN :
         \E out \in { OpenOutput(get_bars(resolution, start_date, end_date, av_ok, yahoo_ok),
                                 RangePath("QQQ", resolution), "done", current_start) } :
           /\ fetched' = Append(fetched, [start |-> start_date, end |-> end_date])
           /\ files' = out.files
           /\ intended' = out.intended
           /\ provenance' = out.provenance
           /\ pending' = out.pending
           /\ pc' = out.pc
    /\ UNCHANGED <<resolution, dataVars, runVars, adapterVars, mainVars, strategyVars,
                   last_save, start_date, end_date, api_key, market, kills, current_start>>

\* lines 272-273: f.write(line + '\n') of the next line
WriteLine ==
    /\ pc = "writing"
    /\ pending[1].written < Len(pending[1].lines)
    /\ files' = OpenAppend(files, pending[1].path,
                           pending[1].lines[pending[1].written + 1] \o <<"\n">>)
    /\ pending' = << [pending[1] EXCEPT !.written = @ + 1] >>
    /\ UNCHANGED <<resolution, dataVars, runVars, adapterVars, mainVars, strategyVars,
                   last_save, start_date, end_date, api_key, market, kills, current_start,
                   fetched, provenance, intended, pc>>

\* the end of the with block: the file is closed; lines 310 / 328 follow
CloseFile ==
    /\ pc = "writing"
    /\ pending[1].written = Len(pending[1].lines)
    /\ pending' = NoHandle
    /\ pc' = pending[1].pc
    /\ current_start' = pending[1].current_start
    /\ UNCHANGED <<resolution, dataVars, runVars, adapterVars, mainVars, strategyVars,
                   last_save, start_date, end_date, api_key, market, kills, files,
                   fetched, provenance, intended>>

\* the process is killed from outside: the files stay as they are
Kill ==
    /\ pc \in {"call", "loop", "writing"}
    /\ Len(kills) < MaxKills
    /\ kills' = Append(kills, IF pending = NoHandle
                              THEN [path |-> <<>>, content |-> <<>>]
                              ELSE [path |-> pending[1].path, content |-> files[pending[1].path]])
    /\ pending' = NoHandle
    /\ pc' = "killed"
    /\ UNCHANGED <<resolution, dataVars, runVars, adapterVars, mainVars, strategyVars,
                   last_save, start_date, end_date, api_key, market, files, current_start,
                   fetched, provenance, intended>>

\* download_symbol_data is called again with the same arguments
Rerun ==
    /\ pc = "killed"
    /\ pc' = "call"
    /\ current_start' = start_date
    /\ fetched' = <<>>
    /\ provenance' = <<>>
    /\ UNCHANGED <<resolution, dataVars, runVars, adapterVars, mainVars, strategyVars,
                   last_save, start_date, end_date, api_key, market, files, kills,
                   pending, intended>>

NextKill ==
    \/ EnterMinute
    \/ OpenChunk
    \/ OpenRange
    \/ WriteLine
    \/ CloseFile
    \/ LoopExit
    \/ Kill
    \/ Rerun

SpecKill == InitKill /\ [][NextKill]_vars

\* ------------------------------------------------------------------------
\* The provider adapters, record by record
\* ------------------------------------------------------------------------
\* a JSON value of a record: the text of a number, text that is no number,
\* or null
Number(n) == [kind |-> "number", value |-> n]
Null == [kind |-> "null", value |-> 0]
Text == [kind |-> "text", value |-> 0]

\* the fields of a record in the order the adapters read them
FieldOrder == <<"open", "high", "low", "close", "volume">>

\* what may be wrong with one record: nothing, or its open / volume field
\* is absent, null or not a number
Defects == {"none", "open missing", "open null", "open text", "volume null"}

\* the k-th well-formed bar the provider may send
AdapterBar(k) ==
    Bar(DateTime(19723 + k, 9, 31, 0, 0), Cents(100) + k, Cents(101) + k, Cents(99), Cents(100), 7 * k)

\* the fields of that bar as the provider sends them, with a defect
AdapterValues(k, defect) ==
    [ f \in (IF defect = "open missing" THEN {"high", "low", "close", "volume"}
             ELSE {"open", "high", "low", "close", "volume"}) |->
        IF f = "open" /\ defect = "open null" THEN Null
        ELSE IF f = "open" /\ defect = "open text" THEN Text
        ELSE IF f = "volume" /\ defect = "volume null" THEN Null
        ELSE Number(AdapterBar(k)[f]) ]

\* the orders in which up to MaxLen different bars may be sent
RecordOrders ==
    { order \in SeqsUpTo(1..MaxLen, MaxLen) :
        \A i, j \in DOMAIN order : i # j => order[i] # order[j] }

\* 'Time Series (...)' of an Alpha Vantage document: one record per key
AvTimeSeries ==
    UNION { { [i \in DOMAIN order |-> [timestamp |-> AdapterBar(order[i])["timestamp"],
                                       values |-> AdapterValues(order[i], defects[i])]] :
                defects \in [DOMAIN order -> Defects] } :
            order \in RecordOrders }

\* the documents the Alpha Vantage endpoint may answer with
AvPayloads ==
    { [kind |-> "series", records |-> records] : records \in AvTimeSeries }
      \cup { [kind |-> kind, records |-> <<>>] :
               kind \in {"error_message", "request_exception", "no_series_key"} }
      \cup { [kind |-> "note", records |-> records] :
               records \in { r \in AvTimeSeries : Len(r) <= 1 } }

\* chart.result[0] of a Yahoo document: the timestamps and one column per
\* field; a column may hold nulls and may be shorter than the timestamps
YahooCharts ==
    UNION { { [timestamps |-> [i \in DOMAIN order |-> AdapterBar(order[i])["timestamp"]],
               quote |-> [f \in {"open", "high", "low", "close", "volume"} |->
                            [i \in 1..(IF f = "volume" THEN Len(order) - cut ELSE Len(order)) |->
                               IF f = "open" /\ defects[i] = "open null" THEN Null
                               ELSE IF f = "open" /\ defects[i] = "open text" THEN Text
                               ELSE IF f = "volume" /\ defects[i] = "volume null" THEN Null
                               ELSE Number(AdapterBar(order[i])[f])]]] :
                defects \in [DOMAIN order -> Defects \ {"open missing"}],
                cut \in {c \in 0..1 : c <= Len(order)} } :
            order \in RecordOrders }

\* the documents the Yahoo chart endpoint may answer with
YahooPayloads ==
    { [kind |-> "result", chart |-> chart] : chart \in YahooCharts }
      \cup { [kind |-> "result",
              chart |-> [chart EXCEPT !.quote = [f \in {"high", "low", "close", "volume"} |->
                                                   chart.quote[f]]]] :
               chart \in { c \in YahooCharts : Len(c.timestamps) <= 1 } }
      \cup { [kind |-> kind, chart |-> [timestamps |-> <<>>, quote |-> <<>>]] :
               kind \in {"no_result", "request_exception"} }

\* lines 96-100: float(values[key]) / int(values[key]) of one field
AvField(values, key) ==
    IF key \notin DOMAIN values THEN "KeyError"
    ELSE IF values[key].kind = "null" THEN "TypeError"
    ELSE IF values[key].kind = "text" THEN "ValueError"
    ELSE "ok"

\* lines 94-101: the first exception met while the bar is built, "ok" if none
RECURSIVE AvBarError(_, _)
AvBarError(values, keys) ==
    IF Len(keys) = 0 THEN "ok"
    ELSE IF AvField(values, Head(keys)) # "ok" THEN AvField(values, Head(keys))
    ELSE AvBarError(values, Tail(keys))

\* the bar of a record whose fields are all numbers
BarOf(timestamp, values) ==
    Bar(timestamp, values["open"].value, values["high"].value, values["low"].value,
        values["close"].value, values["volume"].value)

\* line 108: bars.sort(key=lambda x: x['timestamp']), by insertion
RECURSIVE InsertByTimestamp(_, _)
InsertByTimestamp(sorted, bar) ==
    IF Len(sorted) = 0 THEN <<bar>>
    ELSE IF DtLT(bar["timestamp"], Head(sorted)["timestamp"]) THEN <<bar>> \o sorted
    ELSE <<Head(sorted)>> \o InsertByTimestamp(Tail(sorted), bar)

RECURSIVE SortByTimestamp(_)
SortByTimestamp(bars) ==
    IF Len(bars) = 0 THEN <<>>
    ELSE InsertByTimestamp(SortByTimestamp(SubSeq(bars, 1, Len(bars) - 1)), bars[Len(bars)])

\* lines 88-111: the loop over time_series.items(); (ValueError, KeyError)
\* skip the record, any other exception leaves the method
RECURSIVE AvLoop(_, _)
AvLoop(records, bars) ==
    IF Len(records) = 0
    THEN [raised |-> "none", bars |-> SortByTimestamp(bars), slept |-> 0]
    ELSE IF AvBarError(Head(records).values, FieldOrder) = "ok"
    THEN AvLoop(Tail(records), Append(bars, BarOf(Head(records).timestamp, Head(records).values)))
    ELSE IF AvBarError(Head(records).values, FieldOrder) \in {"ValueError", "KeyError"}
    THEN AvLoop(Tail(records), bars)
    ELSE [raised |-> AvBarError(Head(records).values, FieldOrder), bars |-> <<>>, slept |-> 0]

\* get_alpha_vantage_data on one document (lines 64-118)
AlphaVantageCall(doc) ==
    IF doc.kind \in {"request_exception", "error_message", "note"}
    THEN get_alpha_vantage_data(doc.kind)
    ELSE IF doc.kind = "no_series_key"
    THEN [raised |-> "none", bars |-> <<>>, slept |-> 0]
    ELSE AvLoop(doc.records, <<>>)

\* lines 155-159: indicators[key][i] is None
YahooNoneCheck(quote, key, i) ==
    IF key \notin DOMAIN quote THEN "KeyError"
    ELSE IF i > Len(quote[key]) THEN "IndexError"
    ELSE IF quote[key][i].kind = "null" THEN "None"
    ELSE "ok"

\* lines 155-160: the chain of "is None" tests joined by or, field by field
RECURSIVE YahooRowCheck(_, _, _)
YahooRowCheck(quote, keys, i) ==
    IF Len(keys) = 0 THEN "ok"
    ELSE IF YahooNoneCheck(quote, Head(keys), i) # "ok" THEN YahooNoneCheck(quote, Head(keys), i)
    ELSE YahooRowCheck(quote, Tail(keys), i)

\* lines 166-170: float() / int() of the values of row i, all present
YahooRowConverts(quote, i) == \A f \in DOMAIN quote : quote[f][i].kind = "number"

\* lines 151-178: the loop over the timestamps; None and (ValueError,
\* TypeError, IndexError) skip the row, a KeyError reaches the outer handler
\* of line 183, which returns []
RECURSIVE YahooLoop(_, _, _)
YahooLoop(chart, i, bars) ==
    IF i > Len(chart.timestamps) THEN [raised |-> "none", bars |-> bars, slept |-> 0]
    ELSE IF YahooRowCheck(chart.quote, FieldOrder, i) = "KeyError"
    THEN [raised |-> "none", bars |-> <<>>, slept |-> 0]
    ELSE IF YahooRowCheck(chart.quote, FieldOrder, i) = "ok" /\ YahooRowConverts(chart.quote, i)
    THEN YahooLoop(chart, i + 1,
                   Append(bars, BarOf(chart.timestamps[i], [f \in DOMAIN chart.quote |-> chart.quote[f][i]])))
    ELSE YahooLoop(chart, i + 1, bars)

\* get_yahoo_finance_data on one document (lines 136-185)
YahooFinanceCall(doc) ==
    IF doc.kind \in {"request_exception", "no_result"}
    THEN [raised |-> "none", bars |-> <<>>, slept |-> 0]
    ELSE YahooLoop(doc.chart, 1, <<>>)

\* one adapter is about to be called and the provider's answer is fixed
InitAdapter ==
    /\ \/ adapter = "alpha_vantage" /\ payload \in AvPayloads
       \/ adapter = "yahoo" /\ payload \in YahooPayloads
    /\ result = NoResult
    /\ KillIdle /\ MainIdle /\ StrategyIdle
    /\ resolution = "minute"
    /\ files = <<>>
    /\ last_save = NoSave
    /\ DataIdle /\ PipeIdle /\ RunIdle

\* NQDataDownloader.get_alpha_vantage_data
CallAlphaVantage ==
    /\ adapter = "alpha_vantage"
    /\ ~result.done
    /\ \E out \in { AlphaVantageCall(payload) } :
         result' = [done |-> TRUE, raised |-> out.raised, bars |-> out.bars, slept |-> out.slept]
    /\ UNCHANGED <<resolution, dataVars, files, last_save, pipeVars, runVars, killVars,
                   mainVars, strategyVars, adapter, payload>>

\* NQDataDownloader.get_yahoo_finance_data
CallYahooFinance ==
    /\ adapter = "yahoo"
    /\ ~result.done
    /\ \E out \in { YahooFinanceCall(payload) } :
         result' = [done |-> TRUE, raised |-> out.raised, bars |-> out.bars, slept |-> out.slept]
    /\ UNCHANGED <<resolution, dataVars, files, last_save, pipeVars, runVars, killVars,
                   mainVars, strategyVars, adapter, payload>>

NextAdapter == CallAlphaVantage \/ CallYahooFinance

SpecAdapter == InitAdapter /\ [][NextAdapter]_vars

\* ------------------------------------------------------------------------
\* main() of the data pipeline
\* ------------------------------------------------------------------------
\* line 61: choices of --source
Sources == {"alpaca", "binance", "nq", "both", "all"}

\* the downloaders, in the order of their blocks in main()
Downloaders == <<"alpaca", "binance", "nq">>

\* lines 106, 129, 152: the values of args.source under which a block runs
BlockSources(name) ==
    CASE name = "alpaca"  -> {"alpaca", "both", "all"}
      [] name = "binance" -> {"binance", "both", "all"}
      [] name = "nq"      -> {"nq", "all"}

\* the block after a block
BlockAfter(name) ==
    CASE name = "alpaca"  -> "binance"
      [] name = "binance" -> "nq"
      [] name = "nq"      -> "end"

\* a failure of any block ends the process
ExitsOnAnyFailure(src, name) == TRUE

\* lines 120, 124, 143, 147, 166, 170: "if args.source == '<name>': sys.exit(1)"
ExitsOnFailure(src, name) == src = name

\* after argument parsing and the date check (lines 86-103), with the module
\* flags ALPACA_AVAILABLE, BINANCE_AVAILABLE and NQ_AVAILABLE set by the
\* imports (lines 22-41)
InitMain ==
    /\ source \in Sources
    /\ available \in [{"alpaca", "binance", "nq"} -> BOOLEAN]
    /\ invoked = <<>>
    /\ exit_code = "running"
    /\ block = "alpaca"
    /\ KillIdle /\ AdapterIdle /\ StrategyIdle
    /\ resolution = "minute"
    /\ files = <<>>
    /\ last_save = NoSave
    /\ DataIdle /\ PipeIdle /\ RunIdle

\* one source block: skipped when the source is not selected; when the
\* downloader is unavailable nothing is called; otherwise
\* download_multiple_symbols is called and returns or raises an Exception.
\* Result: the calls made, the exit status and the block reached next
SourceBlock(name, src, is_available, outcome) ==
    IF src \notin BlockSources(name)
    THEN [calls |-> <<>>, exit_code |-> "running", block |-> BlockAfter(name)]
    ELSE IF ~is_available
    THEN [calls |-> <<>>,
          exit_code |-> IF ExitsOnFailure(src, name) THEN "1" ELSE "running",
          block |-> IF ExitsOnFailure(src, name) THEN name ELSE BlockAfter(name)]
    ELSE [calls |-> << [downloader |-> name, outcome |-> outcome] >>,
          exit_code |-> IF outcome = "exception" /\ ExitsOnFailure(src, name)
                        THEN "1" ELSE "running",
          block |-> IF outcome = "exception" /\ ExitsOnFailure(src, name)
                    THEN name ELSE BlockAfter(name)]

\* lines 105-126
AlpacaBlock ==
    /\ exit_code = "running"
    /\ block = "alpaca"
    /\ \E outcome \in {"completed", "exception"} :
         \E out \in { SourceBlock("alpaca", source, available["alpaca"], outcome) } :
             /\ invoked' = invoked \o out.calls
             /\ exit_code' = out.exit_code
             /\ block' = out.block
    /\ UNCHANGED <<resolution, dataVars, files, last_save, pipeVars, runVars, killVars,
                   adapterVars, strategyVars, source, available>>

\* lines 128-149
BinanceBlock ==
    /\ exit_code = "running"
    /\ block = "binance"
    /\ \E outcome \in {"completed", "exception"} :
         \E out \in { SourceBlock("binance", source, available["binance"], outcome) } :
             /\ invoked' = invoked \o out.calls
             /\ exit_code' = out.exit_code
             /\ block' = out.block
    /\ UNCHANGED <<resolution, dataVars, files, last_save, pipeVars, runVars, killVars,
                   adapterVars, strategyVars, source, available>>

\* lines 151-171
NqBlock ==
    /\ exit_code = "running"
    /\ block = "nq"
    /\ \E outcome \in {"completed", "exception"} :
         \E out \in { SourceBlock("nq", source, available["nq"], outcome) } :
             /\ invoked' = invoked \o out.calls
             /\ exit_code' = out.exit_code
             /\ block' = out.block
    /\ UNCHANGED <<resolution, dataVars, files, last_save, pipeVars, runVars, killVars,
                   adapterVars, strategyVars, source, available>>

\* line 173: main() returns and the interpreter exits with status 0
MainReturns ==
    /\ exit_code = "running"
    /\ block = "end"
    /\ exit_code' = "0"
    /\ UNCHANGED <<resolution, dataVars, files, last_save, pipeVars, runVars, killVars,
                   adapterVars, strategyVars, source, available, invoked, block>>

NextMain == AlpacaBlock \/ BinanceBlock \/ NqBlock \/ MainReturns

SpecMain == InitMain /\ [][NextMain]_vars

\* ------------------------------------------------------------------------
\* BollingerBandsMeanReversion.IsVolumeConfirmed
\* ------------------------------------------------------------------------
\* lines 183-191: current_volume and avg_volume are both read from
\* symbol_data.volume_sma.Current.Value; "current_volume > avg_volume * 0.8"
\* is compared here after multiplying both sides by 10
IsVolumeConfirmed(symbol_data) ==
    IF ~symbol_data.volume_sma.IsReady THEN FALSE
    ELSE LET current_volume == symbol_data.volume_sma.Current.Value
             avg_volume     == symbol_data.volume_sma.Current.Value
         IN  current_volume * 10 > avg_volume * 8

\* the indicator of one symbol after any number of bars, and the volume of
\* the bar that is being checked
InitBollinger ==
    /\ volume_sma \in [IsReady : BOOLEAN, Value : 0..MaxVolume]
    /\ bar_volume \in 0..MaxVolume
    /\ volume_confirmed = NotCalled
    /\ price = 0
    /\ quantity = 0
    /\ trailing_stops = <<>>
    /\ scheduled = "none"
    /\ KillIdle /\ AdapterIdle /\ MainIdle
    /\ resolution = "daily"
    /\ files = <<>>
    /\ last_save = NoSave
    /\ DataIdle /\ PipeIdle /\ RunIdle

\* CheckSignals (lines 109 and 120) asks whether the volume confirms
CheckVolume ==
    /\ ~volume_confirmed.called
    /\ volume_confirmed' =
         [ called |-> TRUE,
           value  |-> IsVolumeConfirmed([volume_sma |-> [IsReady |-> volume_sma.IsReady,
                                                         Current |-> [Value |-> volume_sma.Value]]]) ]
    /\ UNCHANGED <<resolution, dataVars, files, last_save, pipeVars, runVars, killVars,
                   adapterVars, mainVars, volume_sma, bar_volume, price, quantity,
                   trailing_stops, scheduled>>

NextBollinger == CheckVolume

SpecBollinger == InitBollinger /\ [][NextBollinger]_vars

\* ------------------------------------------------------------------------
\* CryptoMomentum: the trailing stop of one symbol
\* ------------------------------------------------------------------------
\* prices in units of 1/25 of the smallest quoted step, so that 92% of a
\* price is a whole number
CryptoPrices == { 25 * k : k \in 1..MaxQuote }

\* current_price * (1 - self.trailing_stop_pct), trailing_stop_pct = 0.08
StopBelow(current_price) == (current_price * 92) \div 100

\* lines 319-323: a position whose symbol is not in the new allocation is
\* liquidated and its stop cleared
LiquidateUnallocated(holding, allocated) ==
    IF holding.quantity # 0 /\ ~allocated
    THEN [quantity |-> 0, stop |-> <<>>]
    ELSE holding

\* lines 326-332: SetHoldings and the trailing stop of an allocated symbol
SetPosition(holding, allocated, new_quantity, current_price) ==
    IF allocated
    THEN [quantity |-> new_quantity, stop |-> <<StopBelow(current_price)>>]
    ELSE holding

\* lines 343-354: UpdateTrailingStop
UpdateTrailingStop(holding, current_price) ==
    IF holding.stop = <<>> THEN holding
    ELSE IF holding.quantity > 0 /\ StopBelow(current_price) > holding.stop[1]
         THEN [holding EXCEPT !.stop = <<StopBelow(current_price)>>]
         ELSE holding

\* lines 356-367: CheckTrailingStop
CheckTrailingStop(holding, current_price) ==
    IF holding.stop = <<>> THEN holding
    ELSE IF holding.quantity > 0 /\ current_price <= holding.stop[1]
         THEN [quantity |-> 0, stop |-> <<>>]
         ELSE holding

\* after Initialize: no position, trailing_stops[symbol] = None
InitCrypto ==
    /\ price \in CryptoPrices
    /\ quantity = 0
    /\ trailing_stops = <<>>
    /\ scheduled = "AnalyzeAndRebalance"
    /\ volume_sma = [IsReady |-> FALSE, Value |-> 0]
    /\ bar_volume = 0
    /\ volume_confirmed = NotCalled
    /\ KillIdle /\ AdapterIdle /\ MainIdle
    /\ resolution = "daily"
    /\ files = <<>>
    /\ last_save = NoSave
    /\ DataIdle /\ PipeIdle /\ RunIdle

\* a new bar: the price of the symbol changes
PriceChange ==
    /\ price' \in CryptoPrices \ {price}
    /\ UNCHANGED <<resolution, dataVars, files, last_save, pipeVars, runVars, killVars,
                   adapterVars, mainVars, volume_sma, bar_volume, volume_confirmed,
                   quantity, trailing_stops, scheduled>>

\* lines 72-74, 101-118 and 316-334: AnalyzeAndRebalance, every day at 01:00;
\* the momentum ranking either puts the symbol in the allocations or leaves
\* it out
AnalyzeAndRebalance ==
    /\ scheduled = "AnalyzeAndRebalance"
    /\ scheduled' = "ManageRisk"
    /\ \E allocated \in BOOLEAN, new_quantity \in 1..2 :
         \E holding \in { SetPosition(LiquidateUnallocated([quantity |-> quantity,
                                                            stop |-> trailing_stops], allocated),
                                      allocated, new_quantity, price) } :
             /\ quantity' = holding.quantity
             /\ trailing_stops' = holding.stop
    /\ UNCHANGED <<resolution, dataVars, files, last_save, pipeVars, runVars, killVars,
                   adapterVars, mainVars, volume_sma, bar_volume, volume_confirmed, price>>

\* lines 77-79 and 336-341: ManageRisk, every day at 06:00; a symbol that
\* is not invested is skipped
ManageRisk ==
    /\ scheduled = "ManageRisk"
    /\ scheduled' = "AnalyzeAndRebalance"
    /\ \E holding \in { IF quantity # 0
                        THEN CheckTrailingStop(UpdateTrailingStop([quantity |-> quantity,
                                                                   stop |-> trailing_stops], price),
                                               price)
                        ELSE [quantity |-> quantity, stop |-> trailing_stops] } :
         /\ quantity' = holding.quantity
         /\ trailing_stops' = holding.stop
    /\ UNCHANGED <<resolution, dataVars, files, last_save, pipeVars, runVars, killVars,
                   adapterVars, mainVars, volume_sma, bar_volume, volume_confirmed, price>>

NextCrypto == PriceChange \/ AnalyzeAndRebalance \/ ManageRisk

SpecCrypto == InitCrypto /\ [][NextCrypto]_vars

\* ------------------------------------------------------------------------
\* Reading a written row back
\* ------------------------------------------------------------------------
\* text.split(sep): the pieces of text between the occurrences of sep
SplitAt(text, sep) ==
    LET cuts   == {i \in 1..Len(text) : text[i] = sep}
        n      == Cardinality(cuts)
        Cut(k) == IF k = 0 THEN 0
                  ELSE IF k = n + 1 THEN Len(text) + 1
                  ELSE CHOOSE i \in cuts : Cardinality({j \in cuts : j <= i}) = k
    IN  [k \in 1..(n + 1) |-> SubSeq(text, Cut(k - 1) + 1, Cut(k) - 1)]

\* line.split(",")
SplitCommas(line) == SplitAt(line, ",")

IsDigit(c) == \E n \in 0..9 : DigitChar(n) = c
DigitVal(c) == CHOOSE n \in 0..9 : DigitChar(n) = c

RECURSIVE ParseNat(_, _)
ParseNat(chars, acc) ==
    IF Len(chars) = 0 THEN acc ELSE ParseNat(Tail(chars), acc * 10 + DigitVal(Head(chars)))

\* text of a decimal integer: an optional minus sign and at least one digit
IsIntText(chars) ==
    LET digits == IF Len(chars) > 0 /\ chars[1] = "-" THEN Tail(chars) ELSE chars
    IN  Len(digits) > 0 /\ \A i \in 1..Len(digits) : IsDigit(digits[i])

\* int(text)
ParseInt(chars) ==
    IF chars[1] = "-" THEN 0 - ParseNat(Tail(chars), 0) ELSE ParseNat(chars, 0)

\* day number of a calendar date (inverse of the calendar conversion)
DaysFromCivil(y, m, d) ==
    LET yy  == IF m <= 2 THEN y - 1 ELSE y
        era == yy \div 400
        yoe == yy - era * 400
        doy == (153 * (IF m > 2 THEN m - 3 ELSE m + 9) + 2) \div 5 + d - 1
        doe == yoe * 365 + yoe \div 4 - yoe \div 100 + doy
    IN  era * 146097 + doe - 719468

PriceFields == <<"open", "high", "low", "close">>

\* the OHLCV invariant of a bar that has all six keys
OhlcvInvariant(b) ==
    /\ b["low"] <= b["open"] /\ b["open"] <= b["high"]
    /\ b["low"] <= b["close"] /\ b["close"] <= b["high"]
    /\ b["volume"] >= 0

\* a bar the validator is specified to accept
Acceptable(b) == required_fields \subseteq DOMAIN b /\ OhlcvInvariant(b)

\* ------------------------------------------------------------------------
\* Claims about the validator and the encoder (SpecData)
\* ------------------------------------------------------------------------

\* C3: validate_ohlcv_data_simple(bar) is true exactly when the bar has all
\* six fields, low <= open <= high, low <= close <= high and volume >= 0; the
\* bar open=10 high=9 low=8 close=9.5 volume=100 is rejected.
C3_ValidateIff ==
    phase = "validated" =>
        /\ Len(verdicts) = Len(data)
        /\ \A i \in 1..Len(data) :
             /\ verdicts[i] = Acceptable(data[i])
             /\ (data[i] = RejectBar => verdicts[i] = FALSE)

C3_Witness ==
    /\ phase = "validated"
    /\ data = <<RejectBar, ExampleBar>>
    /\ verdicts = <<FALSE, TRUE>>

\* C4: clean_ohlcv_data_simple(bars) is exactly the bars of its input that
\* pass validation, in their original order and unchanged: a subsequence of
\* the input with no invalid bar kept and no valid bar dropped.
C4_CleanIsFilter ==
    phase = "cleaned" =>
        /\ cleaned_data = SelectSeq(data, Acceptable)
        /\ \A i \in 1..Len(cleaned_data) : Acceptable(cleaned_data[i])
        /\ Len(cleaned_data) = Cardinality({i \in 1..Len(data) : Acceptable(data[i])})
        /\ \E pick \in SUBSET (1..Len(data)) :
             /\ Cardinality(pick) = Len(cleaned_data)
             /\ \A i \in 1..Len(cleaned_data) :
                  \E j \in pick :
                     /\ Cardinality({k \in pick : k <= j}) = i
                     /\ cleaned_data[i] = data[j]

C4_Witness ==
    /\ phase = "cleaned"
    /\ data = <<ExampleBar, RejectBar, FineBar>>
    /\ cleaned_data = <<ExampleBar, FineBar>>

\* the i-th written row, split at its commas
RowFields(i) == SplitCommas(csv_lines[i])

\* C5 (as claimed): every price field of an encoded row is
\* round(price * 10000), rounded to the nearest integer.
C5_PricesRounded ==
    (phase = "encoded" /\ \A j \in 1..Len(csv_input) : Acceptable(csv_input[j])) =>
        \A i \in 1..Len(csv_lines) : \A k \in 1..4 :
            ParseInt(RowFields(i)[k + 1])
              = RoundHalfEven(csv_input[i][PriceFields[k]], UnitsPerScaled(LEAN_PRICE_MULTIPLIER))

Abs(x) == IF x < 0 THEN 0 - x ELSE x

\* 1e-4 of a currency unit, in price units
Tolerance == SubTicks

\* decoded price (scaled / m), in price units
Decode(scaled, m) == scaled * UnitsPerScaled(m)

DemoTimeText == <<"2", "0", "2", "4", "0", "1", "1", "5", " ", "0", "9", ":", "3", "1">>

\* text is YYYYMMDD HH:MM of the datetime ts
IsDateTimeTextOf(text, ts) ==
    /\ Len(text) = 14
    /\ text[9] = " "
    /\ text[12] = ":"
    /\ \A k \in (1..14) \ {9, 12} : IsDigit(text[k])
    /\ LET y  == ParseNat(SubSeq(text, 1, 4), 0)
           m  == ParseNat(SubSeq(text, 5, 6), 0)
           d  == ParseNat(SubSeq(text, 7, 8), 0)
           hh == ParseNat(SubSeq(text, 10, 11), 0)
           mm == ParseNat(SubSeq(text, 13, 14), 0)
       IN  /\ m \in 1..12 /\ d \in 1..31
           /\ DaysFromCivil(y, m, d) = ts.date
           /\ hh = ts.hour
           /\ mm = ts.minute

\* text is the whole number of milliseconds between ts and its own midnight
IsMillisTextOf(text, ts) ==
    /\ IsIntText(text)
    /\ LET ms == ParseInt(text)
       IN  /\ 0 <= ms /\ ms < 86400000
           /\ ms \div 3600000 = ts.hour
           /\ (ms \div 60000) % 60 = ts.minute
           /\ (ms \div 1000) % 60 = ts.second
           /\ ms % 1000 = ts.microsecond \div 1000

\* C7: the time field of a row is the text YYYYMMDD HH:MM of the bar's
\* timestamp for daily resolution, and otherwise the integer number of
\* milliseconds since midnight of the bar's own date, in 0..86399999
\* (09:31 gives 34260000).
C7_TimeField ==
    phase = "encoded" =>
        \A i \in 1..Len(csv_lines) :
            LET text == RowFields(i)[1]
                ts   == csv_input[i]["timestamp"]
            IN  IF resolution = "daily"
                THEN /\ IsDateTimeTextOf(text, ts)
                     /\ (ts = DemoTime => text = DemoTimeText)
                ELSE /\ IsMillisTextOf(text, ts)
                     /\ (ts = DemoTime => ParseInt(text) = 34260000)

C7_Witness ==
    /\ phase = "encoded"
    /\ resolution = "minute"
    /\ csv_input = <<ExampleBar, FineBar>>
    /\ ParseInt(RowFields(1)[1]) = 34260000
    /\ ParseInt(RowFields(2)[1]) = 86399999

\* C8: create_lean_csv_simple yields one row per input bar, in input order,
\* each with exactly six comma-separated fields in the order time, open, high,
\* low, close, volume.
C8_RowLayout ==
    phase = "encoded" =>
        /\ Len(csv_lines) = Len(csv_input)
        /\ \A i \in 1..Len(csv_lines) :
             LET fields == RowFields(i)
                 bar    == csv_input[i]
             IN  /\ Len(fields) = 6
                 /\ IF resolution = "daily"
                    THEN IsDateTimeTextOf(fields[1], bar["timestamp"])
                    ELSE IsMillisTextOf(fields[1], bar["timestamp"])
                 /\ \A k \in 1..4 :
                      /\ IsIntText(fields[k + 1])
                      /\ ParseInt(fields[k + 1]) = Trunc(bar[PriceFields[k]], SubTicks)
                 /\ IsIntText(fields[6])
                 /\ ParseInt(fields[6]) = bar["volume"]

C8_Witness ==
    /\ phase = "encoded"
    /\ resolution = "daily"
    /\ csv_input = <<FineBar, RejectBar, ExampleBar>>
    /\ Len(csv_lines) = 3
    /\ csv_lines[3] = DemoTimeText \o <<",">> \o IntStr(3825000) \o <<",">> \o IntStr(3826500)
                        \o <<",">> \o IntStr(3824000) \o <<",">> \o IntStr(3825500)
                        \o <<",">> \o IntStr(1050000)

\* ------------------------------------------------------------------------
\* Claims about the writers (SpecSave)
\* ------------------------------------------------------------------------
\* C9: after a write of rows to path the file at path holds exactly those
\* rows, each ended by a newline, whatever it held before (nothing is kept or
\* appended), and no other file changes; so writing the same rows again
\* leaves the same bytes.
C9_OverwriteExact ==
    last_save.done =>
        /\ last_save.path \in DOMAIN files
        /\ SplitAt(files[last_save.path], "\n") = Append(last_save.lines, <<>>)
        /\ \A p \in DOMAIN files \ {last_save.path} :
             p \in DOMAIN last_save.before /\ files[p] = last_save.before[p]

C9_Witness ==
    /\ last_save.done
    /\ last_save.path \in DOMAIN last_save.before
    /\ Len(last_save.before[last_save.path]) > Len(files[last_save.path])
    /\ Len(last_save.lines) > 0
    /\ files[last_save.path] # last_save.before[last_save.path]

\* ------------------------------------------------------------------------
\* Claims about download_symbol_data (Spec)
\* ------------------------------------------------------------------------
\* number of whole days from start_date to end_date
SpanDays == end_date.date - start_date.date

\* C1 (as claimed): for a minute request with start <= end the fetched
\* sub-windows are contiguous (each begins where the previous one ended),
\* do not overlap, and their union is the requested range: no instant of the
\* range lies outside every sub-window.
C1_Partition ==
    (pc = "done" /\ resolution = "minute") =>
        /\ Len(fetched) >= 1
        /\ fetched[1].start = start_date
        /\ fetched[Len(fetched)].end = end_date
        /\ \A i \in 1..(Len(fetched) - 1) : fetched[i + 1].start = fetched[i].end
        /\ \A i \in 1..Len(fetched) : \A j \in (i + 1)..Len(fetched) :
             DtLE(fetched[i].end, fetched[j].start)
        /\ \A k \in 1..Len(MarketCandidates) :
             InWindow(MarketCandidates[k], start_date, end_date) =>
                \E i \in 1..Len(fetched) :
                    InWindow(MarketCandidates[k], fetched[i].start, fetched[i].end)

\* C2 (as claimed): a minute request spanning D whole days is fetched in
\* exactly ceil(D/7) chunks (58 for D = 400), each of at most 7 days.
C2_ChunkCount ==
    (/\ pc = "done"
     /\ resolution = "minute"
     /\ SecondOfDay(start_date) = SecondOfDay(end_date)
     /\ SpanDays >= 1) =>
        /\ Len(fetched) = (SpanDays + chunk_days - 1) \div chunk_days
        /\ \A i \in 1..Len(fetched) :
             DtLE(fetched[i].end, AddDays(fetched[i].start, chunk_days))

\* C10 (as claimed): at a sub-daily resolution every file written by
\* download_symbol_data holds rows of bars of one calendar date only.
C10_OneDatePerFile ==
    resolution = "minute" =>
        \A path \in DOMAIN provenance :
            \A i \in 1..Len(provenance[path]) : \A j \in 1..Len(provenance[path]) :
                provenance[path][i]["timestamp"].date = provenance[path][j]["timestamp"].date

\* C26: every chunk the minute loop fetches has positive length
\* (current_start < chunk_end), whatever start_date <= end_date; the last
\* chunk is never the empty window [end_date, end_date].
C26_ChunksHavePositiveLength ==
    resolution = "minute" =>
        \A i \in DOMAIN fetched : DtLT(fetched[i].start, fetched[i].end)

\* the rows of a written file, each split into its fields
RowsOf(content) ==
    LET pieces == SplitAt(content, "\n")
    IN  [k \in 1..(Len(pieces) - 1) |-> SplitCommas(pieces[k])]

\* a row whose scaled prices and volume satisfy the OHLCV ordering
RowInOrder(f) ==
    /\ Len(f) = 6
    /\ \A k \in 2..6 : IsIntText(f[k])
    /\ ParseInt(f[4]) <= ParseInt(f[2]) /\ ParseInt(f[2]) <= ParseInt(f[3])
    /\ ParseInt(f[4]) <= ParseInt(f[5]) /\ ParseInt(f[5]) <= ParseInt(f[3])
    /\ ParseInt(f[6]) >= 0

\* C27: every row NQDataDownloader writes to a file satisfies
\* scaledLow <= scaledOpen <= scaledHigh, scaledLow <= scaledClose <= scaledHigh
\* and volume >= 0, for any bars the provider returns.
C27_WrittenRowsInOrder ==
    \A p \in DOMAIN provenance :
        /\ p \in DOMAIN files
        /\ Len(RowsOf(files[p])) = Len(provenance[p])
        /\ \A k \in DOMAIN RowsOf(files[p]) : RowInOrder(RowsOf(files[p])[k])

\* the provider held the malformed bar of the first day, and a file with a
\* row of that day, whose prices are not whole ticks, was written
C27_Witness ==
    /\ \E i \in DOMAIN market : ~validate_ohlcv_data_simple(market[i])
    /\ \E p \in DOMAIN provenance :
         /\ Len(provenance[p]) >= 2
         /\ \E k \in DOMAIN provenance[p] :
              provenance[p][k]["open"] % UnitsPerScaled(LEAN_PRICE_MULTIPLIER) # 0
         /\ Len(RowsOf(files[p])) = Len(provenance[p])

\* ------------------------------------------------------------------------
\* Claims about a run over several symbols (SpecRun)
\* ------------------------------------------------------------------------

\* C12: download_multiple_symbols calls download_symbol_data for every symbol
\* of its list exactly once, in list order, whatever exception an earlier
\* symbol raised; no exception leaves the call, and when it has returned
\* every symbol of the list has been attempted.
C12_EverySymbolAttempted ==
    /\ pc # "escaped"
    /\ attempted = SubSeq(symbols, 1, sym_i)
    /\ (pc = "returned" => attempted = symbols /\ raised = "none")

C12_Witness ==
    /\ pc = "returned"
    /\ Len(symbols) = 2
    /\ attempted = symbols
    /\ Len(errors) > 0
    /\ errors[1].call = 1

\* the answers that are a failed fetch: network error, provider error,
\* malformed response
FetchFailures ==
    { "request_exception", "error_message", "null_field", "no_result", "empty_quote" }

WriteFailedIn(call) == \E k \in DOMAIN fetched : fetched[k].call = call /\ fetched[k].write_failed

\* C13: in the minute loop, when the fetch of a chunk failed and no write
\* failed for that symbol, the chunk that follows it is fetched as well.
C13_LaterChunksStillFetched ==
    (pc = "returned" /\ resolution = "minute") =>
        \A i \in DOMAIN requests :
            ( /\ requests[i].response \in FetchFailures
              /\ DtLE(AddDays(requests[i].end, 1), end_date)
              /\ ~WriteFailedIn(requests[i].call) )
            => \E j \in DOMAIN requests :
                  /\ j > i
                  /\ requests[j].call = requests[i].call
                  /\ requests[j].start = AddDays(requests[i].end, 1)

\* C14: after a failed write no later chunk of the same download_symbol_data
\* call is fetched or written, and the run still attempts every symbol of
\* the list.
C14_WriteFailureFatalForSymbolOnly ==
    /\ \A i \in DOMAIN fetched :
          fetched[i].write_failed =>
              /\ \A j \in DOMAIN fetched : j > i => fetched[j].call # fetched[i].call
              /\ \A j \in DOMAIN requests :
                    j > fetched[i].sent => requests[j].call # fetched[i].call
    /\ (pc = "returned" => Len(attempted) = Len(symbols))

C14_Witness ==
    /\ pc = "returned"
    /\ Len(symbols) = 2
    /\ \E i \in DOMAIN fetched :
          /\ fetched[i].write_failed
          /\ fetched[i].call = 1
          /\ DtLE(AddDays(fetched[i].end, 1), end_date)
    /\ \E j \in DOMAIN fetched : fetched[j].call = 2 /\ ~fetched[j].write_failed

\* C15: when no bar of a chunk survives cleaning (nothing fetched, or every
\* bar invalid) the file system is left as it was: no file is created and
\* the file already at the chunk's path keeps its content.
C15_NoOutputWithoutCleanBars ==
    (last_chunk.done /\ Len(last_chunk.cleaned) = 0) => files = last_chunk.before

C15_Witness ==
    /\ last_chunk.done
    /\ Len(last_chunk.data) > 0
    /\ Len(last_chunk.cleaned) = 0
    /\ last_chunk.path \in DOMAIN files
    /\ files = StaleFiles

\* the answers that are a network or provider error
NetworkOrProviderErrors == {"request_exception", "error_message", "no_result"}

\* a later request of the same download_symbol_data call for the same window
FetchedAgain(i) ==
    \E j \in DOMAIN requests :
        /\ j > i
        /\ requests[j].call = requests[i].call
        /\ requests[j].start = requests[i].start
        /\ requests[j].end = requests[i].end

\* C16: a chunk whose fetch met a network or provider error is fetched again
\* before the run ends.
C16_FailedFetchRetried ==
    pc = "returned" =>
        \A i \in DOMAIN requests :
            requests[i].response \in NetworkOrProviderErrors => FetchedAgain(i)

\* C17: a chunk whose fetch met the provider's rate limit is fetched again
\* before the run ends.
C17_RateLimitedChunkRefetched ==
    pc = "returned" =>
        \A i \in DOMAIN requests : requests[i].response = "note" => FetchedAgain(i)

\* a run report: every input symbol in exactly one of succeeded and failed,
\* every failed symbol with its reason
IsRunReport(report) ==
    /\ \A i \in DOMAIN symbols :
          (\E k \in DOMAIN report.succeeded : report.succeeded[k] = symbols[i])
            # (\E k \in DOMAIN report.failed : report.failed[k].symbol = symbols[i])
    /\ \A k \in DOMAIN report.failed : report.failed[k].reason # "none"

\* C18: when the run completes, download_multiple_symbols yields a run
\* report listing every input symbol as succeeded or as failed with a reason.
C18_RunReport ==
    pc = "returned" => (return_value # "None" /\ IsRunReport(return_value))

\* C19: any two requests sent to the same provider endpoint are at least
\* rate_limit_delay (12) seconds of sleep apart.
C19_DelayBetweenRequests ==
    \A i, j \in DOMAIN requests :
        (i < j /\ requests[i].provider = requests[j].provider)
            => requests[j].at - requests[i].at >= rate_limit_delay

\* ------------------------------------------------------------------------
\* Claims about YahooDataDownloader (SpecYahooRange, SpecYahoo)
\* ------------------------------------------------------------------------
\* the bars of one calendar day, in the order they have in bars
BarsOfDay(bars, day) == SelectSeq(bars, LAMBDA bar : bar["timestamp"].date = day)

DaysOf(bars) == { bars[i]["timestamp"].date : i \in DOMAIN bars }

\* the one archive of the symbol of the call
RangeArchive == YahooRangePath(symbols[1], resolution)

\* C11: for the daily and the hour resolution the Yahoo downloader writes one
\* file per symbol; the file holds the cleaned bars grouped by calendar day,
\* the groups in ascending date order, the bars of one day in the order they
\* were fetched, and every cleaned bar in exactly one group.
C11_OneFileGroupedByDay ==
    /\ DOMAIN files \subseteq { RangeArchive }
    /\ DOMAIN provenance = DOMAIN files
    /\ RangeArchive \in DOMAIN files =>
         /\ last_chunk.done
         /\ files[RangeArchive] =
              YahooRangeMember(symbols[1], resolution) \o <<":">>
                \o WriteLines(create_lean_futures_csv(provenance[RangeArchive], resolution))
         /\ \A i, j \in DOMAIN provenance[RangeArchive] :
              i < j => provenance[RangeArchive][i]["timestamp"].date
                         <= provenance[RangeArchive][j]["timestamp"].date
         /\ \A day \in DaysOf(last_chunk.cleaned) \cup DaysOf(provenance[RangeArchive]) :
              BarsOfDay(provenance[RangeArchive], day) = BarsOfDay(last_chunk.cleaned, day)

\* a later day's bar was fetched before an earlier day's, a malformed bar was
\* dropped, and the archive was written
C11_Witness ==
    /\ RangeArchive \in DOMAIN files
    /\ Len(last_chunk.cleaned) >= 2
    /\ Len(last_chunk.cleaned) < Len(last_chunk.data)
    /\ \E i, j \in DOMAIN last_chunk.cleaned :
         /\ i < j
         /\ last_chunk.cleaned[i]["timestamp"].date > last_chunk.cleaned[j]["timestamp"].date
    /\ provenance[RangeArchive] # last_chunk.cleaned

\* C20: every ticker.history request of the Yahoo downloader is followed by
\* the rate limiter's delay, for every resolution and whether the request
\* returns bars, returns nothing or raises.
C20_DelayAfterEveryRequest ==
    \A i, j \in DOMAIN requests :
        i < j => requests[j].at - requests[i].at >= yahoo_rate_limit_delay

\* C28: in the sub-daily path of YahooDataDownloader.download_symbol_data the
\* window requested for each trading day is non-empty: the start and end
\* that get_bars passes to ticker.history, formatted as YYYY-MM-DD, satisfy
\* start < end.
C28_DayWindowNonEmpty ==
    resolution \notin {"daily", "hour"} =>
        \A i \in DOMAIN requests : StrLess(requests[i].start, requests[i].end)

\* ------------------------------------------------------------------------
\* Claims about the sample strategies (SpecBollinger, SpecCrypto)
\* ------------------------------------------------------------------------
\* C25: IsVolumeConfirmed returns false when the volume average is not
\* ready, and otherwise returns true only when the current volume is more
\* than 80% of the average volume.
C25_VolumeConfirmedAbove80Percent ==
    volume_confirmed.called =>
        /\ ~volume_sma.IsReady => ~volume_confirmed.value
        /\ volume_confirmed.value => bar_volume * 10 > volume_sma.Value * 8

\* C30: while a long position in a symbol stays open, its trailing stop
\* never decreases, whatever AnalyzeAndRebalance and ManageRisk events occur.
C30_TrailingStopNeverDecreases ==
    [][ (quantity > 0 /\ quantity' > 0 /\ trailing_stops # <<>> /\ trailing_stops' # <<>>)
          => trailing_stops'[1] >= trailing_stops[1] ]_vars

\* ------------------------------------------------------------------------
\* Claims about main() (SpecMain)
\* ------------------------------------------------------------------------
\* the sources a value of --source selects
Selected(src) ==
    CASE src = "both" -> {"alpaca", "binance"}
      [] src = "all"  -> {"alpaca", "binance", "nq"}
      [] OTHER        -> {src}

\* position of a downloader in the order alpaca, binance, nq
Rank(name) == CHOOSE k \in 1..3 : Downloaders[k] = name

WellFormed(values) ==
    \A f \in {"open", "high", "low", "close", "volume"} :
        f \in DOMAIN values /\ values[f].kind = "number"

\* row i of a Yahoo chart as a record: the fields whose column reaches row i
YahooRecord(chart, i) ==
    [f \in {g \in DOMAIN chart.quote : i <= Len(chart.quote[g])} |-> chart.quote[f][i]]

\* the records of the document, in the document's order
RecordsOf(doc) ==
    IF adapter = "alpha_vantage" THEN doc.records
    ELSE [i \in DOMAIN doc.chart.timestamps |->
            [timestamp |-> doc.chart.timestamps[i], values |-> YahooRecord(doc.chart, i)]]

\* the bars of the well-formed records of the document, in its order
RECURSIVE WellFormedBars(_)
WellFormedBars(records) ==
    IF Len(records) = 0 THEN <<>>
    ELSE (IF WellFormed(Head(records).values)
          THEN <<BarOf(Head(records).timestamp, Head(records).values)>> ELSE <<>>)
         \o WellFormedBars(Tail(records))

\* C22: when a response of several records holds a record with a missing or
\* null field, the adapter skips only that record: the call does not fail
\* and returns every well-formed record of the response in the response's
\* order.
C22_SkipsOnlyTheBadRecord ==
    (result.done /\ payload.kind \in {"series", "result"})
        => /\ result.raised = "none"
           /\ result.bars = WellFormedBars(RecordsOf(payload))

\* C23: when Alpha Vantage reports its rate limit ('Note'), the method
\* waits 60 seconds, returns an empty list, raises nothing and returns no
\* bar of that response.
C23_RateLimitWaitsAndReturnsEmpty ==
    (result.done /\ adapter = "alpha_vantage" /\ payload.kind = "note")
        => /\ result.raised = "none"
           /\ result.bars = <<>>
           /\ result.slept = 60

\* a rate-limited response that also carried a record has been handled
C23_Witness ==
    /\ result.done
    /\ adapter = "alpha_vantage"
    /\ payload.kind = "note"
    /\ Len(payload.records) > 0
    /\ result.slept = 60

\* ------------------------------------------------------------------------
\* Termination of download_multiple_symbols (SpecRun)
\* ------------------------------------------------------------------------
\* the days the chunk loop has still to cover
LoopLeft ==
    IF DtLE(current_start, end_date) THEN end_date.date - current_start.date + 1 ELSE 0

\* the days of the whole request, plus one
RangeWidth == end_date.date - start_date.date + 2

\* how far download_symbol_data is from its end
CallRank ==
    CASE pc = "call"   -> RangeWidth + 4
      [] pc = "loop"   -> LoopLeft + 3
      [] pc = "done"   -> 2
      [] pc = "raised" -> 2
      [] pc = "for"    -> 1
      [] OTHER         -> 0

\* a bound on the steps the run can still take
RunRank == (Len(symbols) - sym_i) * (RangeWidth + 5) + CallRank

\* some statement of the run can be executed
CanStep ==
    \/ pc = "for" /\ sym_i <= Len(symbols)
    \/ pc = "call" /\ sym_i \in 1..Len(symbols)
    \/ pc = "loop" /\ sym_i \in 1..Len(symbols)
    \/ pc \in {"done", "raised"}

\* every symbol handed over was taken up, and each call either returned or
\* raised an exception that was logged
AllSymbolsFinal ==
    /\ sym_i = Len(symbols)
    /\ attempted = symbols
    /\ raised = "none"
    /\ \A i \in DOMAIN errors : errors[i].call \in 1..Len(symbols)

\* C24: download_multiple_symbols terminates for a finite symbol list and
\* start <= end: every step brings the run closer to its end, each turn of
\* the minute loop moves current_start strictly forward, the run is never
\* stuck before it returns, and when it returns every symbol is done or
\* failed.
C24_RunTerminates ==
    /\ [](RunRank >= 0)
    /\ [][RunRank' < RunRank]_vars
    /\ [][(pc = "loop" /\ pc' = "loop") => DtLT(current_start, current_start')]_vars
    /\ [](pc # "returned" => CanStep)
    /\ [](pc = "returned" => AllSymbolsFinal)

\* a minute run over two chunks has returned: one symbol failed, another
\* went through both chunks
C24_Witness ==
    /\ pc = "returned"
    /\ resolution = "minute"
    /\ Len(symbols) >= 2
    /\ Len(errors) = 1
    /\ \E i, j \in DOMAIN fetched :
         /\ fetched[i].call = fetched[j].call
         /\ DtLT(fetched[i].start, fetched[j].start)

\* ------------------------------------------------------------------------
\* Claims about a killed run (SpecKill)
\* ------------------------------------------------------------------------
\* the files that do not hold all the rows their writer set out to write
PartialFiles == { p \in DOMAIN files : files[p] # intended[p] }

\* the files the current run has opened
WrittenThisRun == DOMAIN provenance

\* the file the run is writing now, or was writing when it was killed
FileInHand ==
    IF pending # NoHandle THEN {pending[1].path}
    ELSE IF pc = "killed" THEN {kills[Len(kills)].path}
    ELSE {}

\* C21: at every moment at most one output file is partially written, and
\* once the run has been made again the partial file is replaced by the
\* complete one.
C21_AtMostOnePartialFile ==
    /\ Cardinality(PartialFiles) <= 1
    /\ pc = "done" => PartialFiles = {}

\* C21, in the form that holds: of the files the current run has opened
\* only the one in hand can be partial, so a kill leaves at most one more
\* partial file; a partial file of a killed run is complete as soon as a
\* later run has written it again, and stays as it is while no later run
\* has opened it.
C21_PartialFileReplacedWhenRewritten ==
    /\ (PartialFiles \cap WrittenThisRun) \subseteq FileInHand
    /\ (PartialFiles \ WrittenThisRun) \subseteq { kills[k].path : k \in DOMAIN kills }
    /\ Cardinality(PartialFiles) <= Len(kills) + 1
    /\ kills = <<>> => Cardinality(PartialFiles) <= 1

\* a run was killed in the middle of a file, and the run made again has
\* written that file completely
C21_Witness ==
    /\ pc = "done"
    /\ Len(kills) > 0
    /\ kills[1].path \in WrittenThisRun
    /\ kills[1].content # intended[kills[1].path]
    /\ Len(kills[1].content) > 0
    /\ files[kills[1].path] = intended[kills[1].path]

====
